---------------------------- MODULE Spec2Model ----------------------------
(***************************************************************************)
(* Model of the JSON report tools: the NameValuePair <-> ObjectHierarchy   *)
(* converter (tools/json_converter.py) and the wildcard validator          *)
(* (tools/metrics_validator.py).                                           *)
(*                                                                         *)
(* Text is modelled character by character: a Python str is a sequence of  *)
(* one-character strings, so that split('.'), the f-string joins and the   *)
(* regular expressions are computed, not assumed.                          *)
(*                                                                         *)
(* A JSON value is a record [t, v]: t is its Python type, v its content    *)
(* (always a sequence).  A dict keeps its insertion order: v is a sequence *)
(* of <<key, value>> pairs with distinct keys.                             *)
(***************************************************************************)
EXTENDS Integers, Sequences, FiniteSets, TLC

VARIABLES
    stats,              \* JSONConverter.stats
    conv,               \* the last JSONConverter call: operation, argument, outcome
    origin,             \* the call whose result was the argument of conv ("none": fresh input)
    validation_results, \* MetricsValidator.validation_results
    val,                \* the last MetricsValidator call: operation, arguments, outcome
    earlier,            \* the result object an earlier validate_metrics returned to its caller
    ext,                \* the last MetricsExtractor call: operation, argument, outcome
    mgr,                \* the last call through a manager and the tuple it returned
    par,                \* two validate_metrics calls in progress on one MetricsValidator
    ref                 \* the objects of a call: its arguments, its copies, its result

vars == <<stats, conv, origin, validation_results, val, earlier, ext, mgr, par, ref>>

\* the state of each tool, for the actions of the other tools
converterVars == <<stats, conv, origin>>
validatorVars == <<validation_results, val, earlier>>

----------------------------------------------------------------------------
(* JSON values *)

JStr(s)      == [t |-> "str",  v |-> s]
JInt(s)      == [t |-> "int",  v |-> s]
JNull        == [t |-> "null", v |-> <<>>]
JDict(items) == [t |-> "dict", v |-> items]
JList(items) == [t |-> "list", v |-> items]
\* no value at all: what a call that raised hands back
Absent      == [t |-> "absent", v |-> <<>>]

\* dict operations on the sequence of <<key, value>> pairs
HasKey(items, k)  == \E i \in 1..Len(items) : items[i][1] = k
IndexOf(items, k) == CHOOSE i \in 1..Len(items) : items[i][1] = k
GetItem(items, k) == items[IndexOf(items, k)][2]
\* d[k] = x : an existing key keeps its place, a new key goes last
SetItem(items, k, x) ==
    IF HasKey(items, k)
    THEN [items EXCEPT ![IndexOf(items, k)] = <<k, x>>]
    ELSE Append(items, <<k, x>>)
KeysOf(items) == {items[i][1] : i \in 1..Len(items)}

\* Python's == on JSON values: dicts compare as mappings (order is ignored),
\* lists element by element, scalars by type and content
RECURSIVE PyEq(_, _)
PyEq(x, y) ==
    IF x.t # y.t THEN FALSE
    ELSE IF x.t = "dict"
    THEN /\ KeysOf(x.v) = KeysOf(y.v)
         /\ \A k \in KeysOf(x.v) : PyEq(GetItem(x.v, k), GetItem(y.v, k))
    ELSE IF x.t = "list"
    THEN /\ Len(x.v) = Len(y.v)
         /\ \A i \in 1..Len(x.v) : PyEq(x.v[i], y.v[i])
    ELSE x.v = y.v

----------------------------------------------------------------------------
(* str.split('.') and '.'.join *)

\* a split that cuts at the first '.' only (what C2 is checked against)
split_once(path) ==
    IF \A i \in 1..Len(path) : path[i] # "."
    THEN <<path>>
    ELSE LET i == CHOOSE i \in 1..Len(path) :
                      path[i] = "." /\ \A j \in 1..(i - 1) : path[j] # "."
         IN  <<SubSeq(path, 1, i - 1), SubSeq(path, i + 1, Len(path))>>

RECURSIVE split(_)
split(path) ==
    IF \A i \in 1..Len(path) : path[i] # "."
    THEN <<path>>
    ELSE LET i == CHOOSE i \in 1..Len(path) :
                      path[i] = "." /\ \A j \in 1..(i - 1) : path[j] # "."
         IN  <<SubSeq(path, 1, i - 1)>> \o split(SubSeq(path, i + 1, Len(path)))

RECURSIVE join(_)
join(parts) ==
    IF Len(parts) = 0 THEN <<>>
    ELSE IF Len(parts) = 1 THEN parts[1]
    ELSE parts[1] \o <<".">> \o join(Tail(parts))

----------------------------------------------------------------------------
(* JSONConverter *)

\* str(x) for the values a 'Name' can hold
PyStr(x) ==
    CASE x.t = "str"  -> x.v
      [] x.t = "int"  -> x.v
      [] x.t = "null" -> <<"N", "o", "n", "e">>
      [] OTHER        -> <<"{", "}">>

\* __init__
InitStats ==
    [total_keys |-> 0, processed_keys |-> 0, errors |-> 0, conversion_type |-> "None"]

\* a walk that creates every intermediate mapping anew, also when it exists
\* already (what C1 is checked against)
RECURSIVE walk_overwriting(_, _, _)
walk_overwriting(current, parts, value) ==
    IF current.t # "dict"
    THEN [raised |-> TRUE, node |-> current]
    ELSE IF Len(parts) = 1
    THEN [raised |-> FALSE, node |-> JDict(SetItem(current.v, parts[1], value))]
    ELSE LET sub == walk_overwriting(JDict(<<>>), Tail(parts), value)
         IN  [raised |-> sub.raised,
              node   |-> JDict(SetItem(current.v, Head(parts), sub.node))]

\* a walk that puts a new mapping in the place of a scalar it has to descend
\* through (what C15 is checked against)
RECURSIVE walk_replacing_scalars(_, _, _)
walk_replacing_scalars(current, parts, value) ==
    IF Len(parts) = 1
    THEN [raised |-> FALSE, node |-> JDict(SetItem(current.v, parts[1], value))]
    ELSE LET part  == Head(parts)
             child == IF HasKey(current.v, part) /\ GetItem(current.v, part).t = "dict"
                      THEN GetItem(current.v, part) ELSE JDict(<<>>)
             sub   == walk_replacing_scalars(child, Tail(parts), value)
         IN  [raised |-> FALSE,
              node   |-> JDict(SetItem(current.v, part, sub.node))]

\* The walk of _build_hierarchy from the mapping `current` along `parts`:
\* every part but the last is looked up, created as {} when missing, and entered;
\* the last part is assigned.  `part not in current` and `current[part] = ...`
\* raise TypeError on anything that is not a dict (str, int, None, list).
RECURSIVE walk(_, _, _)
walk(current, parts, value) ==
    IF current.t # "dict"
    THEN [raised |-> TRUE, node |-> current]
    ELSE IF Len(parts) = 1
    THEN [raised |-> FALSE, node |-> JDict(SetItem(current.v, parts[1], value))]
    ELSE LET part  == Head(parts)
             child == IF HasKey(current.v, part) THEN GetItem(current.v, part)
                                                 ELSE JDict(<<>>)
             sub   == walk(child, Tail(parts), value)
         IN  [raised |-> sub.raised,
              node   |-> JDict(SetItem(current.v, part, sub.node))]

\* _build_hierarchy(result, path, value): the new result, whether it raised, and
\* the increment of stats['processed_keys']
_build_hierarchy(result, path, value) ==
    IF path = <<>>
    THEN [raised |-> FALSE, result |-> result, processed |-> 0]
    ELSE LET w == walk(result, split(path), value)
         IN  [raised |-> w.raised, result |-> w.node,
              processed |-> IF w.raised THEN 0 ELSE 1]

\* the loop of to_object_hierarchy over (name, value) pairs, from entry i
RECURSIVE build_all(_, _, _, _)
build_all(pairs, i, result, processed) ==
    IF i > Len(pairs)
    THEN [raised |-> FALSE, result |-> result, processed |-> processed]
    ELSE LET b == _build_hierarchy(result, pairs[i][1], pairs[i][2])
         IN  IF b.raised
             THEN [raised |-> TRUE, result |-> Absent, processed |-> processed]
             ELSE build_all(pairs, i + 1, b.result, processed + b.processed)

\* the (name, value) pairs of the legacy list format: the dict items of the list,
\* str(item.get('Name', '')) and item.get('Value', '')
RECURSIVE legacy_pairs(_)
legacy_pairs(items) ==
    IF items = <<>> THEN <<>>
    ELSE LET item == Head(items)
             name == IF HasKey(item.v, <<"N", "a", "m", "e">>)
                     THEN PyStr(GetItem(item.v, <<"N", "a", "m", "e">>)) ELSE <<>>
             value == IF HasKey(item.v, <<"V", "a", "l", "u", "e">>)
                      THEN GetItem(item.v, <<"V", "a", "l", "u", "e">>) ELSE JStr(<<>>)
         IN  (IF item.t = "dict" THEN <<<<name, value>>>> ELSE <<>>)
             \o legacy_pairs(Tail(items))

\* to_object_hierarchy(data) on a converter whose statistics are `old`:
\* whether it raised, what it returned, and the statistics afterwards
to_object_hierarchy(data, old) ==
    IF data.t \notin {"dict", "list", "str"}
    THEN \* len(data) raises before the counters are reset and outside the try
         [raised |-> TRUE, result |-> Absent,
          stats |-> [old EXCEPT !.conversion_type = "NameValuePair_to_ObjectHierarchy"]]
    ELSE LET pairs == CASE data.t = "dict" -> data.v
                        [] data.t = "list" -> legacy_pairs(data.v)
                        [] OTHER           -> <<>>
             b == build_all(pairs, 1, JDict(<<>>), 0)
         IN  [raised |-> b.raised, result |-> b.result,
              stats |-> [conversion_type |-> "NameValuePair_to_ObjectHierarchy",
                         total_keys      |-> Len(data.v),
                         processed_keys  |-> b.processed,
                         errors          |-> IF b.raised THEN 1 ELSE 0]]

\* a traversal that names a leaf by its own key, without the path that leads to
\* it (what C3 is checked against)
RECURSIVE _flatten_without_prefix(_, _, _)
_flatten_without_prefix(items, prefix, result) ==
    IF items = <<>> THEN result
    ELSE LET key   == items[1][1]
             value == items[1][2]
             done  == IF value.t = "dict"
                      THEN _flatten_without_prefix(value.v, key, result)
                      ELSE SetItem(result, key, value)
         IN  _flatten_without_prefix(Tail(items), prefix, done)

\* _flatten_hierarchy_to_dict(data, prefix, result) over the items of data:
\* the flat result after the traversal
RECURSIVE _flatten_hierarchy_to_dict(_, _, _)
_flatten_hierarchy_to_dict(items, prefix, result) ==
    IF items = <<>> THEN result
    ELSE LET key   == items[1][1]
             value == items[1][2]
             current_path == IF prefix # <<>> THEN prefix \o <<".">> \o key ELSE key
             done  == IF value.t = "dict"
                      THEN _flatten_hierarchy_to_dict(value.v, current_path, result)
                      ELSE SetItem(result, current_path, value)
         IN  _flatten_hierarchy_to_dict(Tail(items), prefix, done)

\* to_name_value_pair(data): data.items() raises AttributeError on a non-dict
to_name_value_pair(data, old) ==
    IF data.t # "dict"
    THEN [raised |-> TRUE, result |-> Absent,
          stats |-> [conversion_type |-> "ObjectHierarchy_to_NameValuePair",
                     total_keys |-> 0, processed_keys |-> 0, errors |-> 1]]
    ELSE LET result == _flatten_hierarchy_to_dict(data.v, <<>>, <<>>)
         IN  [raised |-> FALSE, result |-> JDict(result),
              stats |-> [conversion_type |-> "ObjectHierarchy_to_NameValuePair",
                         total_keys      |-> Len(result),
                         processed_keys  |-> Len(result),
                         errors          |-> 0]]

----------------------------------------------------------------------------
(* Bounded inputs of the converter *)

\* most entries of a generated flat map
MaxEntries == 2
\* most key/value items, nested ones included, of a generated hierarchy
MaxItems == 3

ScalarValues == {JStr(<<"x">>), JInt(<<"1">>)}

\* keys of flat maps: plain, nested, sharing a prefix, one a dot-prefix of
\* another, and keys with an empty segment ("", ".a", "a.")
FlatKeys ==
    { <<"a">>, <<"b">>, <<"a", ".", "b">>, <<"a", ".", "c">>, <<"a", ".", "b", ".", "c">>,
      <<>>, <<".", "a">>, <<"a", ".">> }

\* the item sequences of at most n entries with distinct keys
RECURSIVE FlatItems(_)
FlatItems(n) ==
    IF n = 0 THEN {<<>>}
    ELSE LET shorter == FlatItems(n - 1)
         IN  shorter \cup
             UNION { { Append(m, <<k, x>>) : k \in FlatKeys \ KeysOf(m), x \in ScalarValues } :
                     m \in {s \in shorter : Len(s) = n - 1} }

FlatMaps == { JDict(m) : m \in FlatItems(MaxEntries) }

\* keys of hierarchies: plain, empty, and one holding a '.'
HierKeys == { <<"a">>, <<"b">>, <<>>, <<"a", ".", "b">> }

\* the item sequences (distinct keys per mapping) holding exactly n items,
\* nested ones included; a value is a scalar, {} or a smaller mapping
RECURSIVE HierItems(_)
HierItems(n) ==
    IF n = 0 THEN {<<>>}
    ELSE UNION { LET values == IF m = 0 THEN ScalarValues \cup {JDict(<<>>)}
                               ELSE {JDict(d) : d \in HierItems(m)}
                     rests  == HierItems(n - 1 - m)
                 IN  UNION { { <<<<k, x>>>> \o rest :
                                 k \in HierKeys \ KeysOf(rest), x \in values } :
                             rest \in rests } :
                 m \in 0..(n - 1) }

Hierarchies == UNION { { JDict(d) : d \in HierItems(n) } : n \in 0..MaxItems }

\* inputs that are no mapping of scalars and mappings: a list leaf, the legacy
\* list of Name/Value objects, and top-level scalars
OtherDocs ==
    { JDict(<< << <<"a">>, JList(<<JStr(<<"x">>)>>) >> >>),
      JList(<< JDict(<< << <<"N", "a", "m", "e">>, JStr(<<"a", ".", "b">>) >>,
                       << <<"V", "a", "l", "u", "e">>, JInt(<<"1">>) >> >>),
              JStr(<<"x">>),
              JDict(<< << <<"N", "a", "m", "e">>, JInt(<<"1">>) >> >>) >>),
      JStr(<<"x">>), JInt(<<"1">>), JNull }

\* inputs a converter that was already used is called with again
RepeatDocs ==
    { JInt(<<"1">>),
      JDict(<< << <<"a">>, JStr(<<"x">>) >>, << <<"a", ".", "b">>, JInt(<<"1">>) >> >>),
      JDict(<< << <<"a", ".", "b">>, JStr(<<"x">>) >>, << <<"a", ".", "c">>, JInt(<<"1">>) >> >>),
      JDict(<< << <<"a">>, JDict(<< << <<"b">>, JStr(<<"x">>) >> >>) >>,
               << <<"b">>, JDict(<<>>) >> >>) }

----------------------------------------------------------------------------
(* The converter as a state machine *)

NoCall == [op |-> "none", arg |-> Absent, raised |-> FALSE, result |-> Absent]

Convert(op, data) ==
    IF op = "to_object_hierarchy" THEN to_object_hierarchy(data, stats)
                                  ELSE to_name_value_pair(data, stats)

DoConvert(op, data, from) ==
    \E r \in {Convert(op, data)} :
        /\ stats' = r.stats
        /\ conv' = [op |-> op, arg |-> data, raised |-> r.raised, result |-> r.result]
        /\ origin' = from
        /\ UNCHANGED <<validatorVars, ext, mgr, par, ref>>

\* the first call on a fresh converter, on any bounded input
FirstToObjectHierarchy ==
    /\ conv.op = "none"
    /\ \E data \in FlatMaps \cup OtherDocs : DoConvert("to_object_hierarchy", data, NoCall)

FirstToNameValuePair ==
    /\ conv.op = "none"
    /\ \E data \in Hierarchies \cup OtherDocs : DoConvert("to_name_value_pair", data, NoCall)

\* a further call on the same converter
AgainToObjectHierarchy ==
    /\ conv.op # "none"
    /\ \E data \in RepeatDocs : DoConvert("to_object_hierarchy", data, NoCall)

AgainToNameValuePair ==
    /\ conv.op # "none"
    /\ \E data \in RepeatDocs : DoConvert("to_name_value_pair", data, NoCall)

\* the result of the last call converted back (or converted again)
BackToObjectHierarchy ==
    /\ conv.op # "none" /\ ~conv.raised /\ origin.op = "none"
    /\ DoConvert("to_object_hierarchy", conv.result, conv)

BackToNameValuePair ==
    /\ conv.op # "none" /\ ~conv.raised /\ origin.op = "none"
    /\ DoConvert("to_name_value_pair", conv.result, conv)

\* a new JSONConverter()
NewConverter ==
    /\ conv.op # "none"
    /\ stats' = InitStats /\ conv' = NoCall /\ origin' = NoCall
    /\ UNCHANGED <<validatorVars, ext, mgr, par, ref>>

NextConv ==
    \/ FirstToObjectHierarchy \/ FirstToNameValuePair
    \/ AgainToObjectHierarchy \/ AgainToNameValuePair
    \/ BackToObjectHierarchy \/ BackToNameValuePair
    \/ NewConverter

----------------------------------------------------------------------------
(* MetricsValidator: format detection and flattening *)

\* the number of top-level keys detect_format samples
SampleKeys == 5

HasDot(text) == \E i \in 1..Len(text) : text[i] = "."

\* a detection that looks at every top-level key (what C11 is checked against)
detect_format_all_keys(data) ==
    IF data.t = "dict"
    THEN IF \E i \in 1..Len(data.v) : HasDot(data.v[i][1])
         THEN "namevalue" ELSE "objecthierarchy"
    ELSE "unknown"

detect_format(data) ==
    IF data.t = "dict"
    THEN LET sample_keys == SubSeq(data.v, 1, IF Len(data.v) < SampleKeys
                                              THEN Len(data.v) ELSE SampleKeys)
         IN  IF \E i \in 1..Len(sample_keys) : HasDot(sample_keys[i][1])
             THEN "namevalue" ELSE "objecthierarchy"
    ELSE "unknown"

DigitChar == <<"0", "1", "2", "3", "4", "5", "6", "7", "8", "9">>
Digits == {DigitChar[i] : i \in 1..10}

\* str(i) of a list index
RECURSIVE IndexText(_)
IndexText(i) ==
    IF i < 10 THEN <<DigitChar[i + 1]>>
    ELSE IndexText(i \div 10) \o <<DigitChar[(i % 10) + 1]>>

\* flatten_recursive(obj, current_prefix) from element i of obj on, writing into
\* `flattened`: dicts and lists are entered, anything else is stored
RECURSIVE flatten_recursive(_, _, _, _)
flatten_recursive(obj, current_prefix, i, flattened) ==
    IF obj.t \notin {"dict", "list"} \/ i > Len(obj.v) THEN flattened
    ELSE LET value == IF obj.t = "dict" THEN obj.v[i][2] ELSE obj.v[i]
             new_prefix ==
                 IF obj.t = "dict"
                 THEN (IF current_prefix # <<>>
                       THEN current_prefix \o <<".">> \o obj.v[i][1] ELSE obj.v[i][1])
                 ELSE current_prefix \o <<"[">> \o IndexText(i - 1) \o <<"]">>
             done == IF value.t \in {"dict", "list"}
                     THEN flatten_recursive(value, new_prefix, 1, flattened)
                     ELSE SetItem(flattened, new_prefix, value)
         IN  flatten_recursive(obj, current_prefix, i + 1, done)

\* a flattening that joins the empty prefix and the key like any other prefix
\* (what C29 is checked against)
flatten_with_leading_dot(data) ==
    JDict([n \in 1..Len(flatten_recursive(data, <<>>, 1, <<>>)) |->
              << <<".">> \o flatten_recursive(data, <<>>, 1, <<>>)[n][1],
                 flatten_recursive(data, <<>>, 1, <<>>)[n][2] >>])

flatten_object_hierarchy(data) == JDict(flatten_recursive(data, <<>>, 1, <<>>))

----------------------------------------------------------------------------
(* MetricsValidator: patterns *)

StartsWithAt(text, i, needle) ==
    /\ i + Len(needle) - 1 <= Len(text)
    /\ SubSeq(text, i, i + Len(needle) - 1) = needle

\* re.sub of a literal needle: every occurrence, left to right, not overlapping
RECURSIVE re_sub(_, _, _)
re_sub(needle, repl, text) ==
    IF text = <<>> THEN <<>>
    ELSE IF StartsWithAt(text, 1, needle)
    THEN repl \o re_sub(needle, repl, SubSeq(text, Len(needle) + 1, Len(text)))
    ELSE <<Head(text)>> \o re_sub(needle, repl, Tail(text))

\* pattern_to_regex: the four substitutions in the order of the source, each
\* applied to the text the one before it produced, then the anchors
pattern_to_regex(pattern) ==
    LET r1 == re_sub(<<"%">>, <<"[", "^", ".", "]", "*">>, pattern)
        r2 == re_sub(<<"*">>, <<"[", "^", ".", "]", "*">>, r1)
        r3 == re_sub(<<"{", "i", "}">>, <<"[", "0", "-", "9", "]", "+">>, r2)
        r4 == re_sub(<<".">>, <<"\\", ".">>, r3)
    IN  <<"^">> \o r4 \o <<"$">>

----------------------------------------------------------------------------
(* Python's re on the expressions pattern_to_regex can produce: literal     *)
(* characters, \c, character sets [...] and [^...] (with \c and the range    *)
(* 0-9 inside), the repetitions * and +, and the anchors ^ and $.            *)

\* the end of the character set whose body starts at j (the index of its closing
\* ']', 0 when it is never closed); a ']' at the very start of the body is a member
RECURSIVE set_end(_, _, _)
set_end(rx, j, first) ==
    IF j > Len(rx) THEN 0
    ELSE IF rx[j] = "]" /\ ~first THEN j
    ELSE IF rx[j] = "\\" THEN (IF j + 1 > Len(rx) THEN 0 ELSE set_end(rx, j + 2, FALSE))
    ELSE set_end(rx, j + 1, FALSE)

\* the members of the set body rx[j..e-1]: single characters and the range 0-9
RECURSIVE set_members(_, _, _)
set_members(rx, j, e) ==
    IF j >= e THEN [chars |-> {}, digits |-> FALSE]
    ELSE IF rx[j] = "\\"
    THEN LET rest == set_members(rx, j + 2, e)
         IN  [rest EXCEPT !.chars = @ \cup {rx[j + 1]}]
    ELSE IF j + 2 < e /\ rx[j + 1] = "-" /\ rx[j] = "0" /\ rx[j + 2] = "9"
    THEN LET rest == set_members(rx, j + 3, e)
         IN  [rest EXCEPT !.digits = TRUE]
    ELSE LET rest == set_members(rx, j + 1, e)
         IN  [rest EXCEPT !.chars = @ \cup {rx[j]}]

Item(kind, neg, chars, digits, q) ==
    [kind |-> kind, neg |-> neg, chars |-> chars, digits |-> digits, q |-> q]

\* the repetition that follows an atom ending before index j
Repeat(rx, j) == IF j <= Len(rx) /\ rx[j] \in {"*", "+"} THEN rx[j] ELSE "1"
AfterRepeat(rx, j) == IF Repeat(rx, j) = "1" THEN j ELSE j + 1

\* re.compile from index i on: the items, or an error (an unclosed set, a
\* repetition with nothing to repeat, a dangling backslash)
RECURSIVE compile(_, _)
compile(rx, i) ==
    IF i > Len(rx) THEN [error |-> FALSE, items |-> <<>>]
    ELSE LET c == rx[i]
             then(item, j) ==
                 LET rest == compile(rx, j)
                 IN  [error |-> rest.error, items |-> <<item>> \o rest.items]
         IN  CASE c = "^" -> then(Item("bol", FALSE, {}, FALSE, "1"), i + 1)
               [] c = "$" -> then(Item("eol", FALSE, {}, FALSE, "1"), i + 1)
               [] c \in {"*", "+"} -> [error |-> TRUE, items |-> <<>>]
               [] c = "\\" ->
                    IF i + 1 > Len(rx) THEN [error |-> TRUE, items |-> <<>>]
                    ELSE then(Item("set", FALSE, {rx[i + 1]}, FALSE, Repeat(rx, i + 2)),
                              AfterRepeat(rx, i + 2))
               [] c = "[" ->
                    LET neg  == i + 1 <= Len(rx) /\ rx[i + 1] = "^"
                        body == IF neg THEN i + 2 ELSE i + 1
                        e    == set_end(rx, body, TRUE)
                        m    == set_members(rx, body, e)
                    IN  IF e = 0 THEN [error |-> TRUE, items |-> <<>>]
                        ELSE then(Item("set", neg, m.chars, m.digits, Repeat(rx, e + 1)),
                                  AfterRepeat(rx, e + 1))
               [] OTHER ->
                    then(Item("set", FALSE, {c}, FALSE, Repeat(rx, i + 1)),
                         AfterRepeat(rx, i + 1))

\* whether the item accepts the character
Accepts(item, c) == ((c \in item.chars) \/ (item.digits /\ c \in Digits)) # item.neg

\* re.match from item k at position p of the text: the items have to match a
\* prefix of the text; '$' holds at the end and before a final newline
RECURSIVE match_from(_, _, _, _)
match_from(items, k, text, p) ==
    IF k > Len(items) THEN TRUE
    ELSE LET item == items[k]
             run(n) == \A q \in p..(p + n - 1) : Accepts(item, text[q])
         IN  CASE item.kind = "bol" -> p = 1 /\ match_from(items, k + 1, text, p)
               [] item.kind = "eol" ->
                    /\ \/ p = Len(text) + 1
                       \/ p = Len(text) /\ text[p] = "\n"
                    /\ match_from(items, k + 1, text, p)
               [] OTHER ->
                    \E n \in (IF item.q = "*" THEN 0 ELSE 1)
                             ..(IF item.q = "1" THEN 1 ELSE Len(text) - p + 1) :
                        /\ p + n - 1 <= Len(text)
                        /\ run(n)
                        /\ match_from(items, k + 1, text, p + n)

re_match(compiled, text) == match_from(compiled.items, 1, text, 1)

\* the loop of find_matching_keys over the items of data, from item i on
RECURSIVE matching_from(_, _, _)
matching_from(items, compiled, i) ==
    IF i > Len(items) THEN <<>>
    ELSE (IF re_match(compiled, items[i][1]) THEN <<items[i][1]>> ELSE <<>>)
         \o matching_from(items, compiled, i + 1)

\* a search that stops at the first matching key (what C9 is checked against)
find_first_matching_key(data, pattern) ==
    LET compiled == compile(pattern_to_regex(pattern), 1)
        keys     == matching_from(data.v, compiled, 1)
    IN  IF compiled.error /\ Len(data.v) > 0
        THEN [raised |-> TRUE, keys |-> <<>>]
        ELSE [raised |-> FALSE, keys |-> IF keys = <<>> THEN <<>> ELSE <<keys[1]>>]

\* find_matching_keys(data, pattern): the matching keys in the order of data;
\* re.match raises re.error when the regex does not compile
find_matching_keys(data, pattern) ==
    LET compiled == compile(pattern_to_regex(pattern), 1)
    IN  IF compiled.error /\ Len(data.v) > 0
        THEN [raised |-> TRUE, keys |-> <<>>]
        ELSE [raised |-> FALSE, keys |-> matching_from(data.v, compiled, 1)]

----------------------------------------------------------------------------
(* MetricsValidator: validation *)

\* dict.get(field, default) on a configuration or a rule
get(d, field, default) == IF field \in DOMAIN d THEN d[field] ELSE default

\* __init__: the results of a validator that has not validated yet (no
\* 'total_instances' entry)
InitResults ==
    [found_metrics |-> <<>>, missing_metrics |-> <<>>,
     total_expected |-> 0, total_found |-> 0, validation_config |-> "None"]

\* a loop body that counts one instance per found pattern (what C8 is checked
\* against)
record_one_instance(res, pattern, rule_name, matching_keys) ==
    IF matching_keys # <<>>
    THEN [res EXCEPT
            !.total_found = @ + 1,
            !.total_instances = @ + 1,
            !.found_metrics = Append(@,
                [pattern         |-> pattern,
                 instances_found |-> Len(matching_keys),
                 instance_keys   |-> matching_keys,
                 rule            |-> rule_name])]
    ELSE [res EXCEPT
            !.missing_metrics = Append(@, [pattern |-> pattern, rule |-> rule_name])]

\* what the loop body writes for one pattern once its matching keys are known:
\* a found entry and the two counters, or a missing entry
record_result(res, pattern, rule_name, matching_keys) ==
    IF matching_keys # <<>>
    THEN [res EXCEPT
            !.total_found = @ + 1,
            !.total_instances = @ + Len(matching_keys),
            !.found_metrics = Append(@,
                [pattern         |-> pattern,
                 instances_found |-> Len(matching_keys),
                 instance_keys   |-> matching_keys,
                 rule            |-> rule_name])]
    ELSE [res EXCEPT
            !.missing_metrics = Append(@, [pattern |-> pattern, rule |-> rule_name])]

\* the loop over the patterns of a rule, from pattern j on; it stops at a pattern
\* whose regex does not compile, with what was written until then
RECURSIVE validate_patterns(_, _, _, _, _)
validate_patterns(flattened_data, rule_name, patterns, j, res) ==
    IF j > Len(patterns) THEN [raised |-> FALSE, results |-> res]
    ELSE LET pattern == patterns[j]
             counted == [res EXCEPT !.total_expected = @ + 1]
             found   == find_matching_keys(flattened_data, pattern)
         IN  IF found.raised THEN [raised |-> TRUE, results |-> counted]
             ELSE validate_patterns(flattened_data, rule_name, patterns, j + 1,
                                    record_result(counted, pattern, rule_name, found.keys))

\* the loop over the rules, from rule i on
RECURSIVE validate_rules(_, _, _, _)
validate_rules(flattened_data, rules, i, res) ==
    IF i > Len(rules) THEN [raised |-> FALSE, results |-> res]
    ELSE LET rule      == rules[i]
             rule_name == get(rule, "name", <<"U", "n", "k", "n", "o", "w", "n", " ", "R", "u", "l", "e">>)
             patterns  == get(rule, "patterns", <<>>)
             r == validate_patterns(flattened_data, rule_name, patterns, 1, res)
         IN  IF r.raised THEN r
             ELSE validate_rules(flattened_data, rules, i + 1, r.results)

\* a validation that takes a document of unknown format for an empty one (what
\* C12 is checked against)
validate_metrics_lenient(data, config, old) ==
    LET format_type == detect_format(data)
        flattened_data == IF format_type = "objecthierarchy"
                          THEN flatten_object_hierarchy(data)
                          ELSE IF format_type = "namevalue" THEN data ELSE JDict(<<>>)
        fresh == [found_metrics |-> <<>>, missing_metrics |-> <<>>,
                  total_expected |-> 0, total_found |-> 0,
                  total_instances |-> 0,
                  validation_config |-> get(config, "name", "Unknown")]
    IN  validate_rules(flattened_data, get(config, "rules", <<>>), 1, fresh)
        @@ [rebound |-> TRUE]

\* a validation that keeps counting in the dict of the call before (what C18 is
\* checked against)
validate_metrics_merging(data, config, old) ==
    LET format_type == detect_format(data)
    IN  IF format_type = "unknown"
        THEN [raised |-> TRUE, results |-> old, rebound |-> FALSE]
        ELSE LET flattened_data == IF format_type = "objecthierarchy"
                                   THEN flatten_object_hierarchy(data) ELSE data
                 kept == IF "total_instances" \in DOMAIN old
                         THEN [old EXCEPT !.validation_config = get(config, "name", "Unknown")]
                         ELSE [found_metrics |-> <<>>, missing_metrics |-> <<>>,
                               total_expected |-> 0, total_found |-> 0,
                               total_instances |-> 0,
                               validation_config |-> get(config, "name", "Unknown")]
             IN  validate_rules(flattened_data, get(config, "rules", <<>>), 1, kept)
                 @@ [rebound |-> FALSE]

\* validate_metrics(data, config) on a validator whose results are `old`: whether
\* it raised, self.validation_results afterwards (which is what it returns), and
\* whether self.validation_results was bound to a new dict
validate_metrics(data, config, old) ==
    LET format_type == detect_format(data)
    IN  IF format_type = "unknown"
        THEN [raised |-> TRUE, results |-> old, rebound |-> FALSE]
        ELSE LET flattened_data == IF format_type = "objecthierarchy"
                                   THEN flatten_object_hierarchy(data) ELSE data
                 fresh == [found_metrics |-> <<>>, missing_metrics |-> <<>>,
                           total_expected |-> 0, total_found |-> 0,
                           total_instances |-> 0,
                           validation_config |-> get(config, "name", "Unknown")]
             IN  validate_rules(flattened_data, get(config, "rules", <<>>), 1, fresh)
                 @@ [rebound |-> TRUE]

\* the share of missing patterns instead of found ones (what C10 is checked
\* against)
failure_rate(total_found, total_expected) ==
    IF total_expected > 0
    THEN [num |-> (total_expected - total_found) * 100, den |-> total_expected]
    ELSE [num |-> 100, den |-> 1]

\* success_rate = total_found / total_expected * 100 as the exact fraction
\* num / den, and 0 when nothing was expected
success_rate(total_found, total_expected) ==
    IF total_expected > 0
    THEN [num |-> total_found * 100, den |-> total_expected]
    ELSE [num |-> 0, den |-> 1]

\* get_validation_stats: KeyError when the results hold no 'total_instances'
get_validation_stats(res) ==
    IF "total_instances" \notin DOMAIN res
    THEN [raised |-> TRUE, stats |-> <<>>]
    ELSE [raised |-> FALSE,
          stats |-> [total_expected  |-> res.total_expected,
                     total_found     |-> res.total_found,
                     total_missing   |-> Len(res.missing_metrics),
                     total_instances |-> res.total_instances,
                     success_rate    |-> success_rate(res.total_found, res.total_expected),
                     config_name     |-> res.validation_config]]

----------------------------------------------------------------------------
(* Bounded inputs of the validator *)

\* most keys of a document patterns are matched against
MaxDocKeys == 2
\* most segments of a generated pattern
MaxPatternSegs == 2
\* most pattern occurrences in a generated catalog
MaxOccurrences == 3

\* keys: digit and letter segments, an empty segment, one segment more, a list
\* index as flatten_object_hierarchy writes it, a trailing newline
KeyList ==
    << <<"a", ".", "1">>, <<"a", ".", "1", "2">>, <<"a", ".", "b">>, <<"a", ".">>,
       <<"a", ".", "1", ".", "b">>, <<"a", ".", "1", "\n">>,
       <<"r", "[", "0", "]">>, <<"r", "0">>, <<"a", "b">> >>

\* the document holding the keys of KeyList at the indices S, in that order
RECURSIVE DocOf(_, _)
DocOf(S, i) ==
    IF i > Len(KeyList) THEN <<>>
    ELSE (IF i \in S THEN << <<KeyList[i], JInt(<<"1">>)>> >> ELSE <<>>) \o DocOf(S, i + 1)

MatchDocs ==
    { JDict(DocOf(S, 1)) : S \in {T \in SUBSET (1..Len(KeyList)) : Cardinality(T) <= MaxDocKeys} }

PatternSegs == { <<"a">>, <<"1">>, <<"%">>, <<"*">>, <<"{", "i", "}">> }

RECURSIVE SegLists(_)
SegLists(n) ==
    IF n = 0 THEN {<<>>}
    ELSE { Append(l, seg) : l \in SegLists(n - 1), seg \in PatternSegs }

\* patterns of one to MaxPatternSegs segments, and patterns whose literals hold
\* brackets: a list index, a set that spans the separator, an unclosed set
Patterns ==
    UNION { { join(l) : l \in SegLists(n) } : n \in 1..MaxPatternSegs }
    \cup { <<"r", "[", "0", "]">>, <<"a", "[", ".", "b", "]">>, <<"a", "[">> }

\* the i-th top-level key of a document whose format is detected, with or without a dot
FormatKey(i, dotted) ==
    IF dotted THEN <<"k", ".">> \o IndexText(i) ELSE <<"k">> \o IndexText(i)

\* documents that are validated: flat, nested, with a list, without any dot,
\* flat with a dot in none of the keys that detect_format samples, empty, and
\* two that are no mapping
ValDocs ==
    { JDict(<< << <<"a", ".", "1">>, JStr(<<"x">>) >>, << <<"a", ".", "1", "2">>, JInt(<<"1">>) >> >>),
      JDict(<< << <<"a", ".", "b">>, JStr(<<"x">>) >> >>),
      JDict(<< << <<"a">>, JDict(<< << <<"1">>, JStr(<<"x">>) >>, << <<"b">>, JInt(<<"1">>) >> >>) >> >>),
      JDict(<< << <<"r">>, JList(<< JStr(<<"x">>), JDict(<< << <<"a">>, JInt(<<"1">>) >> >>) >>) >> >>),
      JDict(<< << <<"a">>, JStr(<<"x">>) >>, << <<"a", "b">>, JInt(<<"1">>) >> >>),
      JDict([i \in 1..(SampleKeys + 1) |->
                IF i <= SampleKeys THEN <<FormatKey(i, FALSE), JInt(<<"1">>)>>
                ELSE << <<"a", ".", "1">>, JStr(<<"x">>) >>]),
      JDict(<<>>),
      JList(<< JStr(<<"x">>) >>),
      JStr(<<"x">>) }

\* the patterns of generated catalogs; the last one does not compile
ValPatterns == { <<"a", ".", "%">>, <<"a", ".", "{", "i", "}">>, <<"a", "[">> }
\* the sequences of exactly n patterns
RECURSIVE PatternLists(_)
PatternLists(n) ==
    IF n = 0 THEN {<<>>}
    ELSE { Append(l, pt) : l \in PatternLists(n - 1), pt \in ValPatterns }

\* the name of the i-th rule of a generated catalog: "R1", "R2", ...
RuleName(i) == <<"R">> \o IndexText(i)

\* the sequences of rules, each holding at least one pattern, that hold at most
\* `budget` patterns together; the first of them is rule number i
RECURSIVE RuleSeqs(_, _)
RuleSeqs(i, budget) ==
    {<<>>} \cup
    UNION { { <<[name |-> RuleName(i), patterns |-> ps]>> \o rest :
                ps \in PatternLists(n), rest \in RuleSeqs(i + 1, budget - n) } :
            n \in 1..budget }

\* catalogs: generated ones, and ones where 'name', 'rules', a rule's 'name' or
\* a rule's 'patterns' is missing or empty
Catalogs ==
    { [name |-> "cfg", rules |-> rs] : rs \in RuleSeqs(1, MaxOccurrences) }
    \cup { [description |-> "d"],
           [rules |-> <<[patterns |-> << <<"a", ".", "%">> >>]>>],
           [name |-> "cfg", rules |-> <<[name |-> RuleName(1)]>>],
           [name |-> "cfg", rules |-> <<[name |-> RuleName(1), patterns |-> <<>>],
                                        [name |-> RuleName(2),
                                         patterns |-> << <<"a", ".", "%">> >>]>>] }

\* calls a validator that was already used is called with again
RepeatValidations ==
    { <<JDict(<< << <<"a", ".", "b">>, JStr(<<"x">>) >> >>),
        [name |-> "again", rules |-> <<[name |-> RuleName(1), patterns |-> << <<"a", ".", "%">> >>]>>]>>,
      <<JDict(<< << <<"a", ".", "b">>, JStr(<<"x">>) >> >>),
        [name |-> "again", rules |-> <<[name |-> RuleName(1),
                                        patterns |-> << <<"a", ".", "%">>, <<"a", "[">> >>]>>]>>,
      <<JStr(<<"x">>), [name |-> "again", rules |-> <<>>]>> }

\* most top-level keys of a document whose format is detected: one more than
\* detect_format samples
MaxFormatKeys == 6

\* the mappings of at most MaxFormatKeys keys, each key with or without a dot;
\* a nested mapping under the last key
FormatDocs ==
    UNION { { JDict([i \in 1..n |->
                       <<FormatKey(i, dots[i]),
                         IF i = n THEN JDict(<< << <<"a", ".", "b">>, JInt(<<"1">>) >> >>)
                                  ELSE JInt(<<"1">>)>>]) :
                dots \in [1..n -> BOOLEAN] } :
            n \in 0..MaxFormatKeys }

----------------------------------------------------------------------------
(* The validator as a state machine *)

NoVal ==
    [op |-> "none", data |-> Absent, config |-> [description |-> "d"], pattern |-> <<>>,
     raised |-> FALSE, keys |-> <<>>, returned |-> InitResults, stats |-> <<>>,
     format |-> "none", prev_op |-> "none", prev_raised |-> FALSE]

\* no result of an earlier call is held by a caller
NoEarlier ==
    [held |-> FALSE, bound |-> FALSE, at_return |-> InitResults, now |-> InitResults]

\* The dict a call returns is the object bound to self.validation_results.  A
\* caller that kept the dict of an earlier call sees what later calls write
\* into that object: `bound` tells whether it is still the validator's dict,
\* `at_return` is its content when it was returned, `now` its content now.
\* `keep` is the caller's choice to go on holding the dict it has, or to hold
\* the one the previous call returned.
HeldBefore(keep) ==
    IF val.op = "validate_metrics" /\ ~val.raised /\ ~(keep /\ earlier.held)
    THEN [held |-> TRUE, bound |-> TRUE,
          at_return |-> validation_results, now |-> validation_results]
    ELSE earlier

HeldAfter(before, r) ==
    IF ~before.held THEN before
    ELSE [before EXCEPT !.bound = before.bound /\ ~r.rebound,
                        !.now   = IF before.bound /\ ~r.rebound THEN r.results
                                  ELSE before.now]

\* what validate_metrics(data, config) does to the validator
Validate(data, config) ==
    \E r \in {validate_metrics(data, config, validation_results)} :
        /\ validation_results' = r.results
        /\ \E keep \in BOOLEAN : earlier' = HeldAfter(HeldBefore(keep), r)
        /\ val' = [NoVal EXCEPT !.op = "validate_metrics", !.data = data,
                                !.config = config, !.raised = r.raised,
                                !.returned = IF r.raised THEN InitResults ELSE r.results,
                                !.prev_op = val.op, !.prev_raised = val.raised]

DoValidate(data, config) ==
    Validate(data, config) /\ UNCHANGED <<converterVars, ext, mgr, par, ref>>

\* the first validate_metrics on a fresh validator, on any bounded input
FirstValidateMetrics ==
    /\ val.op = "none"
    /\ \E data \in ValDocs, config \in Catalogs : DoValidate(data, config)

\* a further validate_metrics on the same validator
AgainValidateMetrics ==
    /\ val.op = "validate_metrics"
    /\ \E call \in RepeatValidations : DoValidate(call[1], call[2])

\* get_validation_stats after construction or after a validate_metrics
GetValidationStats ==
    /\ val.op \in {"none", "validate_metrics"}
    /\ LET r == get_validation_stats(validation_results)
       IN  val' = [val EXCEPT !.op = "get_validation_stats", !.raised = r.raised,
                              !.stats = r.stats,
                              !.prev_op = val.op, !.prev_raised = val.raised]
    /\ UNCHANGED <<converterVars, validation_results, earlier, ext, mgr, par, ref>>

\* find_matching_keys on a flat document
FindMatchingKeys ==
    /\ val.op = "none"
    /\ \E data \in MatchDocs, pattern \in Patterns :
          LET r == find_matching_keys(data, pattern)
          IN  val' = [NoVal EXCEPT !.op = "find_matching_keys", !.data = data,
                                   !.pattern = pattern, !.raised = r.raised,
                                   !.keys = r.keys]
    /\ UNCHANGED <<converterVars, validation_results, earlier, ext, mgr, par, ref>>

\* detect_format on any document
DetectFormat ==
    /\ val.op = "none"
    /\ \E data \in FormatDocs \cup ValDocs \cup {JInt(<<"1">>), JNull} :
          val' = [NoVal EXCEPT !.op = "detect_format", !.data = data,
                               !.format = detect_format(data)]
    /\ UNCHANGED <<converterVars, validation_results, earlier, ext, mgr, par, ref>>

\* a new MetricsValidator()
NewValidator ==
    /\ val.op # "none"
    /\ validation_results' = InitResults /\ val' = NoVal /\ earlier' = NoEarlier
    /\ UNCHANGED <<converterVars, ext, mgr, par, ref>>

NextVal ==
    \/ FirstValidateMetrics \/ AgainValidateMetrics
    \/ GetValidationStats \/ FindMatchingKeys
    \/ DetectFormat
    \/ NewValidator

----------------------------------------------------------------------------
(* Two validate_metrics calls at a time on one MetricsValidator *)

\* The two calls run in two threads of the interpreter, which switches between
\* them between bytecodes.  The model switches between statements of
\* validate_metrics: the test of the format, the binding of the new dict, the
\* count of a pattern, and the recording of its matches; every interleaving of
\* the model is one of the program.  `objs` are the dicts created so far,
\* `self` is the one bound to self.validation_results, and each call has its
\* locals: where it is (pc), its arguments, flattened_data, the rule and
\* pattern it is at (i, j), the dict it bound (own), the dict it returned (ret)
\* and what that dict held then (returned), and whether the other call bound a
\* dict while this one was in its loops.

\* a call that has not begun
Idle ==
    [pc |-> "idle", data |-> Absent, config |-> [name |-> "none"],
     flattened_data |-> Absent, i |-> 1, j |-> 1, own |-> 0, ret |-> 0,
     returned |-> InitResults, overtaken |-> FALSE]

\* __init__, and no call yet
NoCalls == [objs |-> <<InitResults>>, self |-> 1, call |-> <<Idle, Idle>>]

\* the documents and catalogs the two calls are made with: one pattern that is
\* found, a found pattern and one whose regex does not compile, a document of
\* unknown format, and a found and a missing pattern in two rules
ParCalls ==
    RepeatValidations \cup
    { <<JDict(<< << <<"a", ".", "b">>, JStr(<<"x">>) >> >>),
        [name |-> "two",
         rules |-> <<[name |-> RuleName(1), patterns |-> << <<"a", ".", "*">> >>],
                     [name |-> RuleName(2), patterns |-> << <<"b">> >>]>>]>> }

\* the other call
Other(t) == 3 - t

\* for rule in rules: for pattern in patterns: the next rule and pattern from
\* (i, j) on, or a rule past the last when the loops are over
RECURSIVE next_pattern(_, _, _)
next_pattern(rules, i, j) ==
    IF i > Len(rules) THEN <<i, 1>>
    ELSE IF j <= Len(get(rules[i], "patterns", <<>>)) THEN <<i, j>>
    ELSE next_pattern(rules, i + 1, 1)

\* a call that keeps the dict it made in a local variable (what C23 is checked
\* against)
own_results(t) == par.call[t].own

\* self.validation_results, as the call t reads it: the dict bound to the
\* instance at that moment
self_validation_results(t) == par.self

\* lines 157-165: the format is detected, the document flattened, or ValueError
ParDetect(t) ==
    /\ par.call[t].pc = "idle"
    /\ \E c \in ParCalls :
          LET format_type == detect_format(c[1])
              rules == get(c[2], "rules", <<>>)
          IN  par' = [par EXCEPT !.call[t] =
                        IF format_type = "unknown"
                        THEN [@ EXCEPT !.pc = "raised", !.data = c[1], !.config = c[2]]
                        ELSE [@ EXCEPT !.pc = "bind", !.data = c[1], !.config = c[2],
                                       !.flattened_data =
                                           IF format_type = "objecthierarchy"
                                           THEN flatten_object_hierarchy(c[1]) ELSE c[1]]]
    /\ UNCHANGED <<converterVars, validatorVars, ext, mgr, ref>>

\* lines 168-175: self.validation_results = {...}
ParBind(t) ==
    /\ par.call[t].pc = "bind"
    /\ LET at == next_pattern(get(par.call[t].config, "rules", <<>>), 1, 1)
           u  == Other(t)
       IN  par' = [par EXCEPT
                     !.objs = Append(@,
                         [found_metrics |-> <<>>, missing_metrics |-> <<>>,
                          total_expected |-> 0, total_found |-> 0,
                          total_instances |-> 0,
                          validation_config |-> get(par.call[t].config, "name", "Unknown")]),
                     !.self = Len(par.objs) + 1,
                     !.call[t] = [@ EXCEPT !.pc = "count", !.own = Len(par.objs) + 1,
                                           !.i = at[1], !.j = at[2]],
                     !.call[u] = [@ EXCEPT !.overtaken =
                                     @ \/ par.call[u].pc \in {"count", "record"}]]
    /\ UNCHANGED <<converterVars, validatorVars, ext, mgr, ref>>

\* line 185: self.validation_results['total_expected'] += 1
ParCount(t) ==
    /\ par.call[t].pc = "count"
    /\ par.call[t].i <= Len(get(par.call[t].config, "rules", <<>>))
    /\ par' = [par EXCEPT
                 !.objs[self_validation_results(t)].total_expected = @ + 1,
                 !.call[t].pc = "record"]
    /\ UNCHANGED <<converterVars, validatorVars, ext, mgr, ref>>

\* lines 188-207: the matching keys are found and recorded, or re.error
ParRecord(t) ==
    /\ par.call[t].pc = "record"
    /\ LET c        == par.call[t]
           rules    == get(c.config, "rules", <<>>)
           rule     == rules[c.i]
           rule_name == get(rule, "name", <<"U", "n", "k", "n", "o", "w", "n", " ", "R", "u", "l", "e">>)
           pattern  == get(rule, "patterns", <<>>)[c.j]
       IN  \E found \in {find_matching_keys(c.flattened_data, pattern)},
              at \in {next_pattern(rules, c.i, c.j + 1)} :
              par' = IF found.raised
                     THEN [par EXCEPT !.call[t].pc = "raised"]
                     ELSE [par EXCEPT
                             !.objs[self_validation_results(t)] =
                                 record_result(@, pattern, rule_name, found.keys),
                             !.call[t] = [@ EXCEPT !.pc = "count",
                                                   !.i = at[1], !.j = at[2]]]
    /\ UNCHANGED <<converterVars, validatorVars, ext, mgr, ref>>

\* line 209: return self.validation_results
ParReturn(t) ==
    /\ par.call[t].pc = "count"
    /\ par.call[t].i > Len(get(par.call[t].config, "rules", <<>>))
    /\ par' = [par EXCEPT !.call[t] =
                  [@ EXCEPT !.pc = "done",
                            !.ret = self_validation_results(t),
                            !.returned = par.objs[self_validation_results(t)]]]
    /\ UNCHANGED <<converterVars, validatorVars, ext, mgr, ref>>

\* both calls are over: a new MetricsValidator()
ParNew ==
    /\ \A t \in 1..2 : par.call[t].pc \in {"done", "raised"}
    /\ par' = NoCalls
    /\ UNCHANGED <<converterVars, validatorVars, ext, mgr, ref>>

NextPar ==
    \/ \E t \in 1..2 : ParDetect(t)
    \/ \E t \in 1..2 : ParBind(t)
    \/ \E t \in 1..2 : ParCount(t)
    \/ \E t \in 1..2 : ParRecord(t)
    \/ \E t \in 1..2 : ParReturn(t)
    \/ ParNew

----------------------------------------------------------------------------
(* MetricsExtractor *)

\* a character that str.isdigit accepts and that is no ASCII digit: U+00B2
SuperscriptTwo == "sup2"

\* str.isdigit(): at least one character, and all of them digits
isdigit(part) ==
    part # <<>> /\ \A c \in 1..Len(part) : part[c] \in Digits \cup {SuperscriptTwo}

\* the loop of _convert_to_wildcard_pattern over the parts
RECURSIVE pattern_parts(_)
pattern_parts(parts) ==
    IF parts = <<>> THEN <<>>
    ELSE <<IF isdigit(Head(parts)) THEN <<"*">> ELSE Head(parts)>>
         \o pattern_parts(Tail(parts))

\* a conversion that generalizes the first numeric part only (what C19 is
\* checked against)
_convert_first_number_only(key) ==
    LET parts == split(key)
        firsts == {i \in 1..Len(parts) : isdigit(parts[i])}
    IN  join([i \in 1..Len(parts) |->
                 IF i \in firsts /\ \A j \in firsts : i <= j THEN <<"*">> ELSE parts[i]])

\* a conversion that generalizes a numeric part by taking its last digit away
\* (what C20 is checked against)
_convert_by_digit(key) ==
    LET parts == split(key)
    IN  join([i \in 1..Len(parts) |->
                 IF ~isdigit(parts[i]) THEN parts[i]
                 ELSE IF Len(parts[i]) = 1 THEN <<"*">>
                 ELSE SubSeq(parts[i], 1, Len(parts[i]) - 1)])

_convert_to_wildcard_pattern(key) == join(pattern_parts(split(key)))

\* the code point of a character
ord(c) ==
    CASE c = "\n" -> 10  [] c = "*" -> 42  [] c = "-" -> 45  [] c = "." -> 46
      [] c = "0" -> 48   [] c = "1" -> 49  [] c = "2" -> 50  [] c = "3" -> 51
      [] c = "4" -> 52   [] c = "5" -> 53  [] c = "6" -> 54  [] c = "7" -> 55
      [] c = "8" -> 56   [] c = "9" -> 57  [] c = "A" -> 65  [] c = "[" -> 91
      [] c = "]" -> 93   [] c = "a" -> 97  [] c = "b" -> 98  [] c = "c" -> 99
      [] c = "r" -> 114  [] c = "x" -> 120 [] c = SuperscriptTwo -> 178

\* str.__lt__: the order of the first differing code point, a proper prefix first
RECURSIVE str_lt(_, _)
str_lt(x, y) ==
    IF y = <<>> THEN FALSE
    ELSE IF x = <<>> THEN TRUE
    ELSE IF Head(x) # Head(y) THEN ord(Head(x)) < ord(Head(y))
    ELSE str_lt(Tail(x), Tail(y))

\* sorted(list(patterns)) of a set of strings
RECURSIVE sorted(_)
sorted(patterns) ==
    IF patterns = {} THEN <<>>
    ELSE LET least == CHOOSE x \in patterns : \A y \in patterns \ {x} : str_lt(x, y)
         IN  <<least>> \o sorted(patterns \ {least})

extract_metrics_from_namevalue(data) ==
    sorted({ _convert_to_wildcard_pattern(key) : key \in KeysOf(data.v) })

\* _flatten_hierarchy: the same traversal as the validator's
_flatten_hierarchy(data) == JDict(flatten_recursive(data, <<>>, 1, <<>>))

extract_metrics_from_objecthierarchy(data) ==
    extract_metrics_from_namevalue(_flatten_hierarchy(data))

\* category_mapping of _get_category_name: category key and category name
category_mapping ==
    << << <<"D", "e", "v", "i", "c", "e">>,
          <<"D", "e", "v", "i", "c", "e", " ", "I", "n", "f", "o", "r", "m", "a", "t", "i", "o", "n">> >>,
       << <<"I", "n", "t", "e", "r", "n", "e", "t", "G", "a", "t", "e", "w", "a", "y", "D", "e", "v", "i", "c", "e">>,
          <<"G", "a", "t", "e", "w", "a", "y", " ", "D", "e", "v", "i", "c", "e">> >>,
       << <<"H", "o", "s", "t", "s">>,
          <<"H", "o", "s", "t", " ", "I", "n", "f", "o", "r", "m", "a", "t", "i", "o", "n">> >>,
       << <<"W", "i", "F", "i">>,
          <<"W", "i", "F", "i", " ", "C", "o", "n", "f", "i", "g", "u", "r", "a", "t", "i", "o", "n">> >>,
       << <<"E", "t", "h", "e", "r", "n", "e", "t">>,
          <<"E", "t", "h", "e", "r", "n", "e", "t", " ", "I", "n", "t", "e", "r", "f", "a", "c", "e">> >>,
       << <<"I", "P">>,
          <<"I", "P", " ", "I", "n", "t", "e", "r", "f", "a", "c", "e">> >>,
       << <<"W", "A", "N">>,
          <<"W", "A", "N", " ", "I", "n", "t", "e", "r", "f", "a", "c", "e">> >>,
       << <<"L", "A", "N">>,
          <<"L", "A", "N", " ", "I", "n", "t", "e", "r", "f", "a", "c", "e">> >>,
       << <<"D", "e", "v", "i", "c", "e", ".", "D", "e", "v", "i", "c", "e", "I", "n", "f", "o">>,
          <<"D", "e", "v", "i", "c", "e", " ", "I", "n", "f", "o", "r", "m", "a", "t", "i", "o", "n">> >>,
       << <<"D", "e", "v", "i", "c", "e", ".", "W", "i", "F", "i">>,
          <<"W", "i", "F", "i", " ", "C", "o", "n", "f", "i", "g", "u", "r", "a", "t", "i", "o", "n">> >>,
       << <<"D", "e", "v", "i", "c", "e", ".", "H", "o", "s", "t", "s">>,
          <<"H", "o", "s", "t", " ", "I", "n", "f", "o", "r", "m", "a", "t", "i", "o", "n">> >>,
       << <<"D", "e", "v", "i", "c", "e", ".", "E", "t", "h", "e", "r", "n", "e", "t">>,
          <<"E", "t", "h", "e", "r", "n", "e", "t", " ", "I", "n", "t", "e", "r", "f", "a", "c", "e">> >>,
       << <<"D", "e", "v", "i", "c", "e", ".", "I", "P">>,
          <<"I", "P", " ", "I", "n", "t", "e", "r", "f", "a", "c", "e">> >>,
       << <<"D", "e", "v", "i", "c", "e", ".", "W", "A", "N">>,
          <<"W", "A", "N", " ", "I", "n", "t", "e", "r", "f", "a", "c", "e">> >>,
       << <<"D", "e", "v", "i", "c", "e", ".", "L", "A", "N">>,
          <<"L", "A", "N", " ", "I", "n", "t", "e", "r", "f", "a", "c", "e">> >>,
       << <<"D", "e", "v", "i", "c", "e", ".", "M", "a", "n", "a", "g", "e", "m", "e", "n", "t", "S", "e", "r", "v", "e", "r">>,
          <<"M", "a", "n", "a", "g", "e", "m", "e", "n", "t", " ", "S", "e", "r", "v", "e", "r">> >>,
       << <<"D", "e", "v", "i", "c", "e", ".", "F", "i", "r", "e", "w", "a", "l", "l">>,
          <<"F", "i", "r", "e", "w", "a", "l", "l", " ", "C", "o", "n", "f", "i", "g", "u", "r", "a", "t", "i", "o", "n">> >>,
       << <<"D", "e", "v", "i", "c", "e", ".", "P", "r", "o", "c", "e", "s", "s", "S", "t", "a", "t", "u", "s">>,
          <<"P", "r", "o", "c", "e", "s", "s", " ", "S", "t", "a", "t", "u", "s">> >>,
       << <<"D", "e", "v", "i", "c", "e", ".", "M", "e", "m", "o", "r", "y", "S", "t", "a", "t", "u", "s">>,
          <<"M", "e", "m", "o", "r", "y", " ", "S", "t", "a", "t", "u", "s">> >>,
       << <<"I", "n", "t", "e", "r", "n", "e", "t", "G", "a", "t", "e", "w", "a", "y", "D", "e", "v", "i", "c", "e", ".", "W", "A", "N", "D", "e", "v", "i", "c", "e">>,
          <<"W", "A", "N", " ", "D", "e", "v", "i", "c", "e">> >>,
       << <<"I", "n", "t", "e", "r", "n", "e", "t", "G", "a", "t", "e", "w", "a", "y", "D", "e", "v", "i", "c", "e", ".", "L", "A", "N", "D", "e", "v", "i", "c", "e">>,
          <<"L", "A", "N", " ", "D", "e", "v", "i", "c", "e">> >>,
       << <<"I", "n", "t", "e", "r", "n", "e", "t", "G", "a", "t", "e", "w", "a", "y", "D", "e", "v", "i", "c", "e", ".", "W", "A", "N", "C", "o", "n", "n", "e", "c", "t", "i", "o", "n", "D", "e", "v", "i", "c", "e">>,
          <<"W", "A", "N", " ", "C", "o", "n", "n", "e", "c", "t", "i", "o", "n">> >>,
       << <<"I", "n", "t", "e", "r", "n", "e", "t", "G", "a", "t", "e", "w", "a", "y", "D", "e", "v", "i", "c", "e", ".", "L", "A", "N", "H", "o", "s", "t", "C", "o", "n", "f", "i", "g", "M", "a", "n", "a", "g", "e", "m", "e", "n", "t">>,
          <<"L", "A", "N", " ", "H", "o", "s", "t", " ", "C", "o", "n", "f", "i", "g">> >>,
       << <<"I", "n", "t", "e", "r", "n", "e", "t", "G", "a", "t", "e", "w", "a", "y", "D", "e", "v", "i", "c", "e", ".", "L", "a", "y", "e", "r", "2", "B", "r", "i", "d", "g", "i", "n", "g">>,
          <<"L", "a", "y", "e", "r", " ", "2", " ", "B", "r", "i", "d", "g", "i", "n", "g">> >>,
       << <<"I", "n", "t", "e", "r", "n", "e", "t", "G", "a", "t", "e", "w", "a", "y", "D", "e", "v", "i", "c", "e", ".", "Q", "o", "S">>,
          <<"Q", "u", "a", "l", "i", "t", "y", " ", "o", "f", " ", "S", "e", "r", "v", "i", "c", "e">> >>,
       << <<"I", "n", "t", "e", "r", "n", "e", "t", "G", "a", "t", "e", "w", "a", "y", "D", "e", "v", "i", "c", "e", ".", "U", "p", "l", "o", "a", "d", "D", "i", "a", "g", "n", "o", "s", "t", "i", "c", "s">>,
          <<"U", "p", "l", "o", "a", "d", " ", "D", "i", "a", "g", "n", "o", "s", "t", "i", "c", "s">> >>,
       << <<"I", "n", "t", "e", "r", "n", "e", "t", "G", "a", "t", "e", "w", "a", "y", "D", "e", "v", "i", "c", "e", ".", "D", "o", "w", "n", "l", "o", "a", "d", "D", "i", "a", "g", "n", "o", "s", "t", "i", "c", "s">>,
          <<"D", "o", "w", "n", "l", "o", "a", "d", " ", "D", "i", "a", "g", "n", "o", "s", "t", "i", "c", "s">> >> >>

\* _get_category_name(category_key): category_mapping.get(key, f"{key} Metrics")
_get_category_name(category_key) ==
    IF HasKey(category_mapping, category_key)
    THEN GetItem(category_mapping, category_key)
    ELSE category_key \o <<" ", "M", "e", "t", "r", "i", "c", "s">>

\* a category by the first level alone (what C21 is checked against)
category_of_first_level(metric) == _get_category_name(split(metric)[1])

\* the category name categorize_metrics files a metric under
category_of(metric) ==
    LET parts == split(metric)
    IN  IF Len(parts) >= 2
        THEN _get_category_name(parts[1] \o <<".">> \o parts[2])
        ELSE IF Len(parts) = 1
        THEN _get_category_name(parts[1])
        ELSE <<"O", "t", "h", "e", "r">>

\* the loop of categorize_metrics from the i-th metric on: categories is the
\* defaultdict(list), in the order its keys were first used
RECURSIVE categorize_from(_, _, _)
categorize_from(metrics, i, categories) ==
    IF i > Len(metrics) THEN categories
    ELSE LET category_name == category_of(metrics[i])
             filed == IF HasKey(categories, category_name)
                      THEN GetItem(categories, category_name) ELSE <<>>
         IN  categorize_from(metrics, i + 1,
                 SetItem(categories, category_name, Append(filed, metrics[i])))

categorize_metrics(metrics) == categorize_from(metrics, 1, <<>>)

----------------------------------------------------------------------------
(* Bounded inputs of the extractor *)

\* most keys of a document metrics are extracted from
MaxExtKeys == 2

\* keys: numeric segments of one and two digits, two numeric segments, none, a
\* segment that is '*' already, an empty one, a key that is a number, a digit
\* that is not ASCII, an upper-case letter, digits followed by a letter
ExtKeyList ==
    << <<"a", ".", "1", ".", "b">>, <<"a", ".", "2", ".", "b">>,
       <<"a", ".", "1", "2", ".", "1">>, <<"a", ".", "b">>, <<"a", ".", "*">>,
       <<"a", ".">>, <<"1">>, <<"a", ".", SuperscriptTwo>>, <<"A", ".", "1">>,
       <<"a", ".", "1", "x">> >>

\* the flat document with the given keys, in that order
DocOfKeys(keys) == JDict([i \in 1..Len(keys) |-> <<keys[i], JInt(<<"1">>)>>])

\* the keys of ExtKeyList at the indices S, in the order of the list
RECURSIVE ExtKeysAt(_, _)
ExtKeysAt(S, i) ==
    IF i > Len(ExtKeyList) THEN <<>>
    ELSE (IF i \in S THEN <<ExtKeyList[i]>> ELSE <<>>) \o ExtKeysAt(S, i + 1)

ExtDocs ==
    { DocOfKeys(ExtKeysAt(S, 1)) :
        S \in {T \in SUBSET (1..Len(ExtKeyList)) : Cardinality(T) <= MaxExtKeys} }

\* nested documents: instances under numeric keys, a list, no key at all
ExtHierDocs ==
    { JDict(<< << <<"a">>, JDict(<< << <<"1">>, JDict(<< << <<"b">>, JInt(<<"1">>) >> >>) >>,
                                    << <<"2">>, JDict(<< << <<"b">>, JInt(<<"1">>) >> >>) >> >>) >> >>),
      JDict(<< << <<"r">>, JList(<< JStr(<<"x">>), JDict(<< << <<"1">>, JInt(<<"1">>) >> >>) >>) >> >>),
      JDict(<< << <<"a">>, JStr(<<"x">>) >>, << <<"1">>, JInt(<<"1">>) >> >>),
      JDict(<<>>) }

\* most metrics categorize_metrics is called with
MaxMetrics == 3

\* patterns to categorize: two levels of the table, one level of the table,
\* a deeper pattern, a first level of the table with a second one that is not,
\* other case, levels the table does not have, the empty pattern
MetricList ==
    << <<"D", "e", "v", "i", "c", "e", ".", "W", "i", "F", "i">>,
       <<"D", "e", "v", "i", "c", "e", ".", "W", "i", "F", "i", ".", "*", ".", "x">>,
       <<"W", "i", "F", "i">>,
       <<"D", "e", "v", "i", "c", "e">>,
       <<"D", "e", "v", "i", "c", "e", ".", "x">>,
       <<"d", "e", "v", "i", "c", "e", ".", "W", "i", "F", "i">>,
       <<"x", ".", "*">>,
       <<>> >>

\* the lists of at most MaxMetrics of them, an entry more than once included
MetricLists ==
    UNION { [1..n -> {MetricList[i] : i \in 1..Len(MetricList)}] : n \in 0..MaxMetrics }

----------------------------------------------------------------------------
(* The extractor as a state machine *)

NoExt ==
    [op |-> "none", arg |-> Absent, result |-> <<>>,
     prev_op |-> "none", prev_arg |-> Absent, prev_result |-> <<>>]

DoExtract(op, data, result) ==
    /\ ext' = [op |-> op, arg |-> data, result |-> result,
               prev_op |-> ext.op, prev_arg |-> ext.arg, prev_result |-> ext.result]
    /\ UNCHANGED <<converterVars, validatorVars, mgr, par, ref>>

ExtractMetricsFromNamevalue ==
    /\ ext.op = "none"
    /\ \E data \in ExtDocs :
          DoExtract("extract_metrics_from_namevalue", data,
                    extract_metrics_from_namevalue(data))

ExtractMetricsFromObjecthierarchy ==
    /\ ext.op = "none"
    /\ \E data \in ExtHierDocs \cup Hierarchies :
          DoExtract("extract_metrics_from_objecthierarchy", data,
                    extract_metrics_from_objecthierarchy(data))

ConvertToWildcardPattern ==
    /\ ext.op = "none"
    /\ \E i \in 1..Len(ExtKeyList) :
          DoExtract("_convert_to_wildcard_pattern", JStr(ExtKeyList[i]),
                    <<_convert_to_wildcard_pattern(ExtKeyList[i])>>)

\* the extracted patterns are the keys of the next document
ExtractAgain ==
    /\ ext.op \in {"extract_metrics_from_namevalue", "extract_metrics_from_objecthierarchy"}
    /\ ext.prev_op = "none"
    /\ DoExtract("extract_metrics_from_namevalue", DocOfKeys(ext.result),
                 extract_metrics_from_namevalue(DocOfKeys(ext.result)))

\* the pattern is converted once more
ConvertAgain ==
    /\ ext.op = "_convert_to_wildcard_pattern"
    /\ ext.prev_op = "none"
    /\ DoExtract("_convert_to_wildcard_pattern", JStr(ext.result[1]),
                 <<_convert_to_wildcard_pattern(ext.result[1])>>)

\* categorize_metrics(metrics) on a list of patterns
CategorizeMetrics ==
    /\ ext.op = "none"
    /\ \E metrics \in MetricLists :
          DoExtract("categorize_metrics", metrics, categorize_metrics(metrics))

\* a new MetricsExtractor()
NewExtractor ==
    /\ ext.op # "none"
    /\ ext' = NoExt
    /\ UNCHANGED <<converterVars, validatorVars, mgr, par, ref>>

NextExt ==
    \/ ExtractMetricsFromNamevalue \/ ExtractMetricsFromObjecthierarchy
    \/ ConvertToWildcardPattern
    \/ ExtractAgain \/ ConvertAgain
    \/ CategorizeMetrics
    \/ NewExtractor

----------------------------------------------------------------------------
(* The managers: ConversionManager, ValidationManager, ExtractionManager *)

\* type(x).__name__
TypeName(x) ==
    CASE x.t = "str"  -> "str"  [] x.t = "int"  -> "int" [] x.t = "null" -> "NoneType"
      [] x.t = "dict" -> "dict" [] x.t = "list" -> "list"

\* str(e) of what len(data) raises on a value without a length
LenError(data) == "object of type '" \o TypeName(data) \o "' has no len()"
\* str(e) of what data.items() raises on a value that is no dict
ItemsError(data) == "'" \o TypeName(data) \o "' object has no attribute 'items'"
\* str(e) of the TypeError that the walk of _build_hierarchy raises on a value
\* that is no dict; its wording is the interpreter's and depends on the value
BuildError == "TypeError: _build_hierarchy"
\* str(e) of the ValueError of validate_metrics
FormatError(format_type) == "Unsupported data format: " \o format_type
\* str(e) of the re.error that re.match raises on a regex that does not
\* compile; its wording is the interpreter's
RegexError == "re.error: re.match"

\* a manager that takes every conversion type it does not know for
\* 'to_hierarchy' (what C16 is checked against)
convert_data_defaulting(data, conversion_type, old) ==
    IF conversion_type = "to_namevalue"
    THEN CHOOSE reply \in
             { [success |-> ~r.raised,
                result  |-> IF r.raised THEN JNull ELSE r.result,
                message |-> IF r.raised THEN ItemsError(data) ELSE "",
                stats   |-> r.stats, called |-> "to_name_value_pair"] :
               r \in {to_name_value_pair(data, old)} } : TRUE
    ELSE CHOOSE reply \in
             { [success |-> ~r.raised,
                result  |-> IF r.raised THEN JNull ELSE r.result,
                message |-> IF ~r.raised THEN ""
                            ELSE IF data.t \notin {"dict", "list", "str"}
                            THEN LenError(data) ELSE BuildError,
                stats   |-> r.stats, called |-> "to_object_hierarchy"] :
               r \in {to_object_hierarchy(data, old)} } : TRUE

\* ConversionManager.convert_data(data, conversion_type) on a converter whose
\* statistics are `old`: the returned tuple, the statistics afterwards and the
\* conversion that ran
convert_data(data, conversion_type, old) ==
    CASE conversion_type = "to_hierarchy" ->
            CHOOSE reply \in
                { [success |-> ~r.raised,
                   result  |-> IF r.raised THEN JNull ELSE r.result,
                   message |-> IF ~r.raised THEN ""
                               ELSE IF data.t \notin {"dict", "list", "str"}
                               THEN LenError(data) ELSE BuildError,
                   stats   |-> r.stats, called |-> "to_object_hierarchy"] :
                  r \in {to_object_hierarchy(data, old)} } : TRUE
      [] conversion_type = "to_namevalue" ->
            CHOOSE reply \in
                { [success |-> ~r.raised,
                   result  |-> IF r.raised THEN JNull ELSE r.result,
                   message |-> IF r.raised THEN ItemsError(data) ELSE "",
                   stats   |-> r.stats, called |-> "to_name_value_pair"] :
                  r \in {to_name_value_pair(data, old)} } : TRUE
      [] OTHER ->
            [success |-> FALSE, result |-> JNull,
             message |-> "Unknown conversion type: " \o conversion_type,
             stats   |-> old, called |-> "none"]

\* a manager whose failure carries no message (what C13 is checked against)
validate_with_custom_config_silent(data, custom_config, old) ==
    CHOOSE reply \in
        { [success |-> ~r.raised,
           result  |-> IF r.raised THEN JDict(<<>>) ELSE r.results,
           message |-> ""] :
          r \in {validate_metrics(data, custom_config, old)} } : TRUE

\* ValidationManager.validate_with_custom_config(data, custom_config): the
\* returned tuple
validate_with_custom_config(data, custom_config, old) ==
    CHOOSE reply \in
        { [success |-> ~r.raised,
           result  |-> IF r.raised THEN JDict(<<>>) ELSE r.results,
           message |-> IF ~r.raised THEN ""
                       ELSE IF detect_format(data) = "unknown"
                       THEN FormatError(detect_format(data)) ELSE RegexError] :
          r \in {validate_metrics(data, custom_config, old)} } : TRUE

\* ExtractionManager.extract_metrics(data): the returned tuple and the method
\* of the extractor that ran
extract_metrics(data) ==
    IF data.t = "dict"
    THEN LET sample_keys == SubSeq(data.v, 1, IF Len(data.v) < SampleKeys
                                              THEN Len(data.v) ELSE SampleKeys)
             has_dot_notation == \E i \in 1..Len(sample_keys) : HasDot(sample_keys[i][1])
         IN  IF has_dot_notation
             THEN [success |-> TRUE, result |-> extract_metrics_from_namevalue(data),
                   message |-> "", called |-> "extract_metrics_from_namevalue"]
             ELSE [success |-> TRUE, result |-> extract_metrics_from_objecthierarchy(data),
                   message |-> "", called |-> "extract_metrics_from_objecthierarchy"]
    ELSE [success |-> FALSE, result |-> JList(<<>>),
          message |-> "Invalid data format", called |-> "none"]

----------------------------------------------------------------------------
(* The managers as a state machine *)

\* the modes convert_data is called with: the two it knows, and others
ConversionTypes == {"to_hierarchy", "to_namevalue", "to_flat"}

\* inputs that are no mapping
NonMappings == {JList(<<JStr(<<"x">>)>>), JStr(<<"x">>), JInt(<<"1">>), JNull}

\* no manager was called yet
NoReply ==
    [op |-> "none", arg |-> Absent, type |-> "none", success |-> FALSE,
     result |-> JNull, message |-> "", stats_before |-> InitStats,
     results_before |-> InitResults]

\* convert_data(data, conversion_type) on the manager's converter
ConvertData(data, conversion_type) ==
    \E r \in {convert_data(data, conversion_type, stats)} :
        /\ stats' = r.stats
        /\ conv' = IF r.called = "none" THEN conv
                   ELSE [op |-> r.called, arg |-> data, raised |-> ~r.success,
                         result |-> IF r.success THEN r.result ELSE Absent]
        /\ origin' = NoCall
        /\ mgr' = [NoReply EXCEPT !.op = "convert_data", !.arg = data,
                                  !.type = conversion_type, !.success = r.success,
                                  !.result = r.result, !.message = r.message,
                                  !.stats_before = stats]
        /\ UNCHANGED <<validatorVars, ext, par, ref>>

\* the first call of a ConversionManager
FirstConvertData ==
    /\ mgr.op = "none"
    /\ \E data \in FlatMaps \cup OtherDocs \cup RepeatDocs, type \in ConversionTypes :
          ConvertData(data, type)

\* a further call of the same ConversionManager
AgainConvertData ==
    /\ mgr.op = "convert_data"
    /\ \E data \in RepeatDocs, type \in ConversionTypes : ConvertData(data, type)

\* validate_with_custom_config(data, custom_config) on the manager's validator
ValidateWithCustomConfig(data, custom_config) ==
    \E r \in {validate_with_custom_config(data, custom_config, validation_results)} :
        /\ Validate(data, custom_config)
        /\ mgr' = [NoReply EXCEPT !.op = "validate_with_custom_config", !.arg = data,
                                  !.success = r.success, !.result = r.result,
                                  !.message = r.message,
                                  !.results_before = validation_results]
        /\ UNCHANGED <<converterVars, ext, par, ref>>

\* the first call of a ValidationManager
FirstValidateWithCustomConfig ==
    /\ mgr.op = "none"
    /\ \E data \in ValDocs \cup NonMappings, config \in Catalogs :
          ValidateWithCustomConfig(data, config)

\* a further call of the same ValidationManager
AgainValidateWithCustomConfig ==
    /\ mgr.op = "validate_with_custom_config"
    /\ \E call \in RepeatValidations : ValidateWithCustomConfig(call[1], call[2])

\* extract_metrics(data) of an ExtractionManager
ExtractMetrics ==
    /\ mgr.op = "none"
    /\ \E data \in ExtDocs \cup ExtHierDocs \cup NonMappings :
          LET r == extract_metrics(data)
          IN  /\ ext' = IF r.called = "none" THEN ext
                        ELSE [NoExt EXCEPT !.op = r.called, !.arg = data,
                                           !.result = r.result]
              /\ mgr' = [NoReply EXCEPT !.op = "extract_metrics", !.arg = data,
                                        !.success = r.success, !.result = r.result,
                                        !.message = r.message]
    /\ UNCHANGED <<converterVars, validatorVars, par, ref>>

\* new managers
NewManagers ==
    /\ mgr.op # "none"
    /\ stats' = InitStats /\ conv' = NoCall /\ origin' = NoCall
    /\ validation_results' = InitResults /\ val' = NoVal /\ earlier' = NoEarlier
    /\ ext' = NoExt /\ mgr' = NoReply
    /\ UNCHANGED <<par, ref>>

NextMgr ==
    \/ FirstConvertData \/ AgainConvertData
    \/ FirstValidateWithCustomConfig \/ AgainValidateWithCustomConfig
    \/ ExtractMetrics
    \/ NewManagers

----------------------------------------------------------------------------
(* Objects and references: what a call shares with its arguments *)

\* A dict or a list is an object of the heap, a sequence of nodes; the cell
\* that holds it is a reference to its place in the heap.  A scalar is held as
\* it is.  A dict node holds <<key, cell>> items, a list node holds cells.
Ref(id) == [t |-> "ref", v |-> id]
IsRef(cell) == cell.t = "ref"
IsDictRef(heap, cell) == IsRef(cell) /\ heap[cell.v].t = "dict"

\* the document x built as objects: the heap afterwards and the cell of x
RECURSIVE alloc(_, _), alloc_all(_, _, _, _)
alloc(heap, x) ==
    IF x.t \notin {"dict", "list"} THEN [heap |-> heap, cell |-> x]
    ELSE CHOOSE made \in
             { [heap |-> Append(f.heap, [t |-> x.t, v |-> f.cells]),
                cell |-> Ref(Len(f.heap) + 1)] :
               f \in {alloc_all(heap, x, 1, <<>>)} } : TRUE
alloc_all(heap, x, i, cells) ==
    IF i > Len(x.v) THEN [heap |-> heap, cells |-> cells]
    ELSE CHOOSE made \in
             { alloc_all(c.heap, x, i + 1,
                         Append(cells, IF x.t = "dict" THEN <<x.v[i][1], c.cell>>
                                                       ELSE c.cell)) :
               c \in {alloc(heap, IF x.t = "dict" THEN x.v[i][2] ELSE x.v[i])} } : TRUE

\* the document a cell holds
RECURSIVE value_of(_, _)
value_of(heap, cell) ==
    IF ~IsRef(cell) THEN cell
    ELSE IF heap[cell.v].t = "dict"
    THEN JDict([n \in 1..Len(heap[cell.v].v) |->
                   <<heap[cell.v].v[n][1], value_of(heap, heap[cell.v].v[n][2])>>])
    ELSE JList([n \in 1..Len(heap[cell.v].v) |-> value_of(heap, heap[cell.v].v[n])])

\* the objects that can be reached from a cell
RECURSIVE reachable(_, _)
reachable(heap, cell) ==
    IF ~IsRef(cell) THEN {}
    ELSE {cell.v} \cup
         UNION { reachable(heap, IF heap[cell.v].t = "dict" THEN heap[cell.v].v[n][2]
                                                            ELSE heap[cell.v].v[n]) :
                 n \in 1..Len(heap[cell.v].v) }

\* a conversion that works on its argument itself (what C30 is checked against)
no_copy(heap, cell) == [heap |-> heap, cell |-> cell]

\* deep_bytes_to_str(obj): every dict and every list of obj is built anew, every
\* other value is returned as it is
deep_bytes_to_str(heap, cell) == alloc(heap, value_of(heap, cell))

\* the walk of _build_hierarchy from the object `current` along `parts`; the
\* last part is assigned the cell itself, not a copy of what it holds
RECURSIVE walk_objects(_, _, _, _)
walk_objects(heap, current, parts, cell) ==
    IF ~IsDictRef(heap, current)
    THEN [raised |-> TRUE, heap |-> heap]
    ELSE IF Len(parts) = 1
    THEN [raised |-> FALSE,
          heap |-> [heap EXCEPT ![current.v].v = SetItem(@, parts[1], cell)]]
    ELSE IF HasKey(heap[current.v].v, Head(parts))
    THEN walk_objects(heap, GetItem(heap[current.v].v, Head(parts)), Tail(parts), cell)
    ELSE walk_objects(
             Append([heap EXCEPT ![current.v].v =
                                     Append(@, <<Head(parts), Ref(Len(heap) + 1)>>)],
                    [t |-> "dict", v |-> <<>>]),
             Ref(Len(heap) + 1), Tail(parts), cell)

\* the loop of to_object_hierarchy over the pairs, from pair i on
RECURSIVE build_objects(_, _, _, _)
build_objects(heap, result, pairs, i) ==
    IF i > Len(pairs) THEN [raised |-> FALSE, heap |-> heap]
    ELSE IF pairs[i][1] = <<>> THEN build_objects(heap, result, pairs, i + 1)
    ELSE CHOOSE built \in
             { IF w.raised THEN w ELSE build_objects(w.heap, result, pairs, i + 1) :
               w \in {walk_objects(heap, result, split(pairs[i][1]), pairs[i][2])} } : TRUE

\* the Name and the Value of the objects of a legacy list, as cells
RECURSIVE legacy_cells(_, _, _)
legacy_cells(heap, cells, i) ==
    IF i > Len(cells) THEN <<>>
    ELSE (IF ~IsDictRef(heap, cells[i]) THEN <<>>
          ELSE LET items == heap[cells[i].v].v
               IN  << << IF HasKey(items, <<"N", "a", "m", "e">>)
                         THEN PyStr(value_of(heap, GetItem(items, <<"N", "a", "m", "e">>)))
                         ELSE <<>>,
                         IF HasKey(items, <<"V", "a", "l", "u", "e">>)
                         THEN GetItem(items, <<"V", "a", "l", "u", "e">>)
                         ELSE JStr(<<>>) >> >>)
         \o legacy_cells(heap, cells, i + 1)

\* to_object_hierarchy(data) on objects: the copy deep_bytes_to_str makes, len()
\* of it, the new result and the loop over the pairs of the copy
to_object_hierarchy_of(heap, data) ==
    CHOOSE made \in
        { IF ~IsRef(copy.cell) /\ copy.cell.t # "str"
          THEN [raised |-> TRUE, heap |-> copy.heap, result |-> Absent]
          ELSE CHOOSE built \in
                   { [raised |-> b.raised, heap |-> b.heap,
                      result |-> IF b.raised THEN Absent ELSE Ref(Len(copy.heap) + 1)] :
                     b \in {build_objects(
                                Append(copy.heap, [t |-> "dict", v |-> <<>>]),
                                Ref(Len(copy.heap) + 1),
                                IF ~IsRef(copy.cell) THEN <<>>
                                ELSE IF copy.heap[copy.cell.v].t = "dict"
                                THEN copy.heap[copy.cell.v].v
                                ELSE legacy_cells(copy.heap, copy.heap[copy.cell.v].v, 1),
                                1)} } : TRUE :
          copy \in {deep_bytes_to_str(heap, data)} } : TRUE

\* _flatten_hierarchy_to_dict on objects, from item i of the dict `data` on:
\* a value that is no dict is assigned as the cell it is
RECURSIVE flatten_objects(_, _, _, _, _)
flatten_objects(heap, data, prefix, result, i) ==
    IF i > Len(heap[data.v].v) THEN heap
    ELSE CHOOSE h \in
             { flatten_objects(done, data, prefix, result, i + 1) :
               done \in
                 { IF IsDictRef(heap, heap[data.v].v[i][2])
                   THEN flatten_objects(heap, heap[data.v].v[i][2],
                            IF prefix # <<>>
                            THEN prefix \o <<".">> \o heap[data.v].v[i][1]
                            ELSE heap[data.v].v[i][1],
                            result, 1)
                   ELSE [heap EXCEPT ![result.v].v =
                            SetItem(@, IF prefix # <<>>
                                       THEN prefix \o <<".">> \o heap[data.v].v[i][1]
                                       ELSE heap[data.v].v[i][1],
                                    heap[data.v].v[i][2])] } } : TRUE

\* to_name_value_pair(data) on objects: the copy deep_bytes_to_str makes is
\* flattened into a new result
to_name_value_pair_of(heap, data) ==
    CHOOSE made \in
        { IF ~IsDictRef(copy.heap, copy.cell)
          THEN [raised |-> TRUE, heap |-> copy.heap, result |-> Absent]
          ELSE [raised |-> FALSE,
                heap |-> flatten_objects(Append(copy.heap, [t |-> "dict", v |-> <<>>]),
                                         copy.cell, <<>>, Ref(Len(copy.heap) + 1), 1),
                result |-> Ref(Len(copy.heap) + 1)] :
          copy \in {deep_bytes_to_str(heap, data)} } : TRUE

\* the documents of the calls on objects, among them: a mapping as the value
\* of an entry that a later entry descends into, lists as values, nested lists
\* and mappings
RefDocs ==
    FlatMaps \cup OtherDocs \cup RepeatDocs \cup
    { JDict(<< << <<"a">>, JDict(<< << <<"c">>, JInt(<<"1">>) >> >>) >>,
               << <<"a", ".", "b">>, JInt(<<"1">>) >> >>),
      JDict(<< << <<"a">>, JList(<< JStr(<<"x">>), JDict(<<>>) >>) >>,
               << <<"b">>, JDict(<< << <<"c">>, JList(<<>>) >> >>) >> >>) }

\* no call yet
NoObjects ==
    [op |-> "none", heap |-> <<>>, data |-> Absent, config |-> [name |-> "none"],
     data_before |-> Absent,
     raised |-> FALSE, result |-> Absent, changed |-> FALSE]

\* to_object_hierarchy(data) of a new converter, with the document data built
\* as objects of the caller
RefToObjectHierarchy ==
    /\ ref.op = "none"
    /\ \E x \in RefDocs :
          \E arg \in {alloc(<<>>, x)} :
              \E r \in {to_object_hierarchy_of(arg.heap, arg.cell)} :
                  ref' = [NoObjects EXCEPT !.op = "to_object_hierarchy", !.heap = r.heap,
                                           !.data = arg.cell, !.data_before = x,
                                           !.raised = r.raised, !.result = r.result]
    /\ UNCHANGED <<converterVars, validatorVars, ext, mgr, par>>

\* to_name_value_pair(data) of a new converter
RefToNameValuePair ==
    /\ ref.op = "none"
    /\ \E x \in RefDocs :
          \E arg \in {alloc(<<>>, x)} :
              \E r \in {to_name_value_pair_of(arg.heap, arg.cell)} :
                  ref' = [NoObjects EXCEPT !.op = "to_name_value_pair", !.heap = r.heap,
                                           !.data = arg.cell, !.data_before = x,
                                           !.raised = r.raised, !.result = r.result]
    /\ UNCHANGED <<converterVars, validatorVars, ext, mgr, par>>

\* the caller changes the result it got: an entry more in one of its mappings,
\* an element more in one of its lists
RefChangeResult ==
    /\ ref.op \in {"to_object_hierarchy", "to_name_value_pair"}
    /\ ~ref.raised /\ ~ref.changed
    /\ \E id \in reachable(ref.heap, ref.result) :
          ref' = [ref EXCEPT
                    !.changed = TRUE,
                    !.heap[id].v = IF ref.heap[id].t = "dict"
                                   THEN SetItem(@, <<"z">>, JNull)
                                   ELSE Append(@, JNull)]
    /\ UNCHANGED <<converterVars, validatorVars, ext, mgr, par>>

\* validate_metrics(data, config) and extract_metrics(data): both read data and
\* config (items, keys, get, membership) and assign to their locals and to
\* self.validation_results only; what they return holds keys and patterns
RefValidateMetrics ==
    /\ ref.op = "none"
    /\ \E x \in ValDocs, c \in {call[2] : call \in ParCalls} :
          \E arg \in {alloc(<<>>, x)} :
              \E r \in {validate_metrics(value_of(arg.heap, arg.cell), c, InitResults)} :
                  ref' = [NoObjects EXCEPT !.op = "validate_metrics", !.heap = arg.heap,
                                           !.data = arg.cell, !.data_before = x,
                                           !.config = c,
                                           !.raised = r.raised]
    /\ UNCHANGED <<converterVars, validatorVars, ext, mgr, par>>

RefExtractMetrics ==
    /\ ref.op = "none"
    /\ \E x \in ExtHierDocs \cup NonMappings :
          \E arg \in {alloc(<<>>, x)} :
              \E r \in {extract_metrics(value_of(arg.heap, arg.cell))} :
                  ref' = [NoObjects EXCEPT !.op = "extract_metrics", !.heap = arg.heap,
                                           !.data = arg.cell, !.data_before = x,
                                           !.raised = ~r.success]
    /\ UNCHANGED <<converterVars, validatorVars, ext, mgr, par>>

\* the next call, on new objects
RefNew ==
    /\ ref.op # "none"
    /\ ref' = NoObjects
    /\ UNCHANGED <<converterVars, validatorVars, ext, mgr, par>>

NextRef ==
    \/ RefToObjectHierarchy \/ RefToNameValuePair
    \/ RefChangeResult
    \/ RefValidateMetrics \/ RefExtractMetrics
    \/ RefNew

----------------------------------------------------------------------------
(* Specifications *)

\* the state after construction of a converter and a validator
Init ==
    /\ stats = InitStats /\ conv = NoCall /\ origin = NoCall
    /\ validation_results = InitResults /\ val = NoVal /\ earlier = NoEarlier
    /\ ext = NoExt /\ mgr = NoReply /\ par = NoCalls
    /\ ref = NoObjects

SpecConv == Init /\ [][NextConv]_vars

\* the converter and the validator share no state: each is checked on its own
SpecVal == Init /\ [][NextVal]_vars

SpecExt == Init /\ [][NextExt]_vars

\* the tools behind their managers
SpecMgr == Init /\ [][NextMgr]_vars

\* two calls of validate_metrics at a time on one validator
SpecPar == Init /\ [][NextPar]_vars

\* the calls at the level of objects and references
SpecRef == Init /\ [][NextRef]_vars

----------------------------------------------------------------------------
(* Notions the claims about the converter are stated in *)

IsLeaf(x) == x.t # "dict"
IsScalar(x) == x.t \in {"str", "int", "null"}

\* the segments of a dot-path, found without split: the maximal dot-free runs
Segments(key) ==
    LET dots == {i \in 1..Len(key) : key[i] = "."}
        cuts == {0} \cup dots \cup {Len(key) + 1}
        nth(n) == CHOOSE c \in cuts : Cardinality({d \in cuts : d < c}) = n
    IN  [n \in 1..(Cardinality(dots) + 1) |-> SubSeq(key, nth(n - 1) + 1, nth(n) - 1)]

\* the keys of the path joined with '.'
RECURSIVE DotJoin(_)
DotJoin(P) ==
    IF Len(P) = 0 THEN <<>>
    ELSE IF Len(P) = 1 THEN P[1] ELSE P[1] \o <<".">> \o DotJoin(Tail(P))

IsPrefix(p, q) == Len(p) < Len(q) /\ SubSeq(q, 1, Len(p)) = p

\* a flat map: scalar values under dot-paths without empty segments
WellFormedFlat(m) ==
    /\ m.t = "dict"
    /\ \A i \in 1..Len(m.v) :
          /\ IsScalar(m.v[i][2])
          /\ \A n \in DOMAIN Segments(m.v[i][1]) : Segments(m.v[i][1])[n] # <<>>

\* no key is a dot-prefix of another key
PrefixFree(m) ==
    \A i, j \in 1..Len(m.v) : ~IsPrefix(Segments(m.v[i][1]), Segments(m.v[j][1]))

\* the leaves of a hierarchy: <<path of keys, value>> for every non-mapping value
RECURSIVE Leaves(_, _)
Leaves(h, P) ==
    UNION { IF IsLeaf(h.v[i][2])
            THEN { <<Append(P, h.v[i][1]), h.v[i][2]>> }
            ELSE Leaves(h.v[i][2], Append(P, h.v[i][1])) : i \in 1..Len(h.v) }

\* the mappings inside a hierarchy, itself excluded
RECURSIVE SubMappings(_)
SubMappings(h) ==
    UNION { IF IsLeaf(h.v[i][2]) THEN {}
            ELSE {h.v[i][2]} \cup SubMappings(h.v[i][2]) : i \in 1..Len(h.v) }

NoDotInKeys(h) ==
    \A m \in {h} \cup SubMappings(h) :
        \A i \in 1..Len(m.v) : \A c \in 1..Len(m.v[i][1]) : m.v[i][1][c] # "."

NoEmptySubMapping(h) == \A m \in SubMappings(h) : m.v # <<>>
NoEmptyTopKey(h) == ~HasKey(h.v, <<>>)
EmptyTopKeyHoldsNoMapping(h) == HasKey(h.v, <<>>) => IsLeaf(GetItem(h.v, <<>>))
DistinctLeafPaths(h) ==
    \A l1, l2 \in Leaves(h, <<>>) : DotJoin(l1[1]) = DotJoin(l2[1]) => l1 = l2

\* conv is to_name_value_pair applied to the result of to_object_hierarchy(m)
FlatRoundTrip == conv.op = "to_name_value_pair" /\ origin.op = "to_object_hierarchy"
\* conv is to_object_hierarchy applied to the result of to_name_value_pair(h)
HierRoundTrip == conv.op = "to_object_hierarchy" /\ origin.op = "to_name_value_pair"

\* to_name_value_pair(h) holds one entry per leaf of h, under the dot-join of its
\* path, and the counters equal the number of entries
OneEntryPerLeaf(h, result, st) ==
    /\ Len(result.v) = Cardinality(Leaves(h, <<>>))
    /\ \A l \in Leaves(h, <<>>) :
          HasKey(result.v, DotJoin(l[1])) /\ GetItem(result.v, DotJoin(l[1])) = l[2]
    /\ \A i \in 1..Len(result.v) : IsLeaf(result.v[i][2])
    /\ st.total_keys = Len(result.v) /\ st.processed_keys = Len(result.v)

----------------------------------------------------------------------------
(* Claims C1 - C3: the converter *)

\* C1 as stated: for every flat map m of scalars whose keys have no empty
\* segment, to_object_hierarchy(m) succeeds and flattening its result gives m.
C1_RoundTripFlat_AsStated ==
    /\ (conv.op = "to_object_hierarchy" /\ WellFormedFlat(conv.arg)) => ~conv.raised
    /\ (FlatRoundTrip /\ WellFormedFlat(origin.arg))
          => (~conv.raised /\ PyEq(conv.result, origin.arg))

\* C1 (amended): for every flat map m of scalars whose keys have no empty
\* segment and none of whose keys is a dot-prefix of another,
\* to_name_value_pair(to_object_hierarchy(m)) equals m.
C1_RoundTripFlat ==
    /\ (conv.op = "to_object_hierarchy" /\ WellFormedFlat(conv.arg) /\ PrefixFree(conv.arg))
          => ~conv.raised
    /\ (FlatRoundTrip /\ WellFormedFlat(origin.arg) /\ PrefixFree(origin.arg))
          => (~conv.raised /\ PyEq(conv.result, origin.arg))

\* a round trip of a two-entry flat map whose keys share their first segment
C1_Witness ==
    /\ FlatRoundTrip /\ WellFormedFlat(origin.arg) /\ PrefixFree(origin.arg)
    /\ Len(origin.arg.v) = 2
    /\ \A i \in 1..2 : Len(split(origin.arg.v[i][1])) >= 2
    /\ split(origin.arg.v[1][1])[1] = split(origin.arg.v[2][1])[1]
    /\ PyEq(conv.result, origin.arg)

\* C2 as stated: for every hierarchy h whose keys hold no '.',
\* to_object_hierarchy(to_name_value_pair(h)) equals h, empty sub-mappings included.
C2_RoundTripHier_AsStated ==
    (HierRoundTrip /\ origin.arg.t = "dict" /\ NoDotInKeys(origin.arg))
        => (~conv.raised /\ PyEq(conv.result, origin.arg))

\* C2 (amended): for every hierarchy h whose keys hold no '.', that has no empty
\* sub-mapping and no empty top-level key,
\* to_object_hierarchy(to_name_value_pair(h)) equals h.
C2_RoundTripHier ==
    (HierRoundTrip /\ origin.arg.t = "dict" /\ NoDotInKeys(origin.arg)
       /\ NoEmptySubMapping(origin.arg) /\ NoEmptyTopKey(origin.arg))
        => (~conv.raised /\ PyEq(conv.result, origin.arg))

\* a round trip of a hierarchy three levels deep
C2_Witness ==
    /\ HierRoundTrip /\ origin.arg.t = "dict" /\ NoDotInKeys(origin.arg)
    /\ NoEmptySubMapping(origin.arg) /\ NoEmptyTopKey(origin.arg)
    /\ \E l \in Leaves(origin.arg, <<>>) : Len(l[1]) = 3
    /\ PyEq(conv.result, origin.arg)

\* C3 as stated: for every mapping h, to_name_value_pair(h) holds exactly one
\* entry per leaf of h, keyed by the dot-join of its path and holding its value,
\* no mapping is an entry, and total_keys = processed_keys = number of entries.
C3_OneEntryPerLeaf_AsStated ==
    (conv.op = "to_name_value_pair" /\ conv.arg.t = "dict")
        => (~conv.raised /\ OneEntryPerLeaf(conv.arg, conv.result, stats))

\* C3 (amended): the same for every mapping h in which no two leaves have the
\* same dot-joined path and an empty top-level key holds no mapping.
C3_OneEntryPerLeaf ==
    (conv.op = "to_name_value_pair" /\ conv.arg.t = "dict"
       /\ DistinctLeafPaths(conv.arg) /\ EmptyTopKeyHoldsNoMapping(conv.arg))
        => (~conv.raised /\ OneEntryPerLeaf(conv.arg, conv.result, stats))

\* a nested mapping with two leaves and an empty sub-mapping was flattened
C3_Witness ==
    /\ conv.op = "to_name_value_pair" /\ conv.arg.t = "dict" /\ ~conv.raised
    /\ DistinctLeafPaths(conv.arg) /\ EmptyTopKeyHoldsNoMapping(conv.arg)
    /\ Cardinality(Leaves(conv.arg, <<>>)) = 2
    /\ \E l \in Leaves(conv.arg, <<>>) : Len(l[1]) = 2
    /\ Len(conv.result.v) = 2 /\ stats.total_keys = 2

----------------------------------------------------------------------------
(* Notions the claims about patterns are stated in *)

Percent  == <<"%">>
Asterisk == <<"*">>
Braces   == <<"{", "i", "}">>
IsToken(seg) == seg \in {Percent, Asterisk, Braces}

\* the characters wildcard tokens are written with
TokenChars == {"%", "*", "{", "}"}
\* the characters that are special in a regular expression
RegexChars == {".", "^", "$", "*", "+", "?", "{", "}", "[", "]", "\\", "|", "(", ")"}

\* a literal segment: it holds no character of a wildcard token
IsLiteral(seg) == \A c \in 1..Len(seg) : seg[c] \notin TokenChars
\* a plain literal segment: letters and digits, nothing a regular expression or
\* a line end gives a meaning to
IsPlainLiteral(seg) ==
    \A c \in 1..Len(seg) : seg[c] \notin TokenChars \cup RegexChars \cup {"\n"}

\* every segment of the pattern is a plain literal or exactly one token
IsPlainPattern(pattern) ==
    \A n \in DOMAIN Segments(pattern) :
        IsToken(Segments(pattern)[n]) \/ IsPlainLiteral(Segments(pattern)[n])
\* every segment of the pattern is a literal or exactly one token
IsTokenPattern(pattern) ==
    \A n \in DOMAIN Segments(pattern) :
        IsToken(Segments(pattern)[n]) \/ IsLiteral(Segments(pattern)[n])
\* the pattern holds no wildcard token
HasNoToken(pattern) ==
    /\ \A c \in 1..Len(pattern) : pattern[c] \notin {"%", "*"}
    /\ \A c \in 1..(Len(pattern) - 2) : SubSeq(pattern, c, c + 2) # Braces

IsDigitRun(seg) == seg # <<>> /\ \A c \in 1..Len(seg) : seg[c] \in Digits

\* what a pattern segment stands for, as specified
SegmentMatches(pseg, kseg) ==
    CASE pseg \in {Percent, Asterisk} -> TRUE
      [] pseg = Braces                -> IsDigitRun(kseg)
      [] OTHER                        -> kseg = pseg

\* the key has as many segments as the pattern, and each is what the pattern's
\* segment stands for
KeyMatches(pattern, key) ==
    /\ Len(Segments(key)) = Len(Segments(pattern))
    /\ \A n \in DOMAIN Segments(pattern) :
          SegmentMatches(Segments(pattern)[n], Segments(key)[n])

\* the pattern with '%' and '*' exchanged
SwapWildcards(pattern) ==
    [c \in 1..Len(pattern) |->
        CASE pattern[c] = "%" -> "*" [] pattern[c] = "*" -> "%" [] OTHER -> pattern[c]]

KeySet(keys) == {keys[i] : i \in 1..Len(keys)}

\* find_matching_keys(val.data, val.pattern) was called
Matched == val.op = "find_matching_keys"

----------------------------------------------------------------------------
(* Claims C4 - C7: patterns *)

\* C4 as stated: for every flat document and every pattern whose segments are
\* each a plain literal or exactly one of '%', '*', '{i}', find_matching_keys
\* returns exactly the keys with as many segments as the pattern whose i-th
\* segment equals the literal, is any dot-free string (the empty one included)
\* under '%' or '*', or is a non-empty run of digits under '{i}'; and exchanging
\* '%' and '*' never changes the returned keys.
C4_WildcardSemantics_AsStated ==
    (Matched /\ IsPlainPattern(val.pattern)) =>
        /\ ~val.raised
        /\ KeySet(val.keys) = {k \in KeysOf(val.data.v) : KeyMatches(val.pattern, k)}
        /\ find_matching_keys(val.data, SwapWildcards(val.pattern)).keys = val.keys

\* C5 as stated: for every pattern built from literal segments and the tokens
\* '%', '*', '{i}', every key find_matching_keys returns has exactly as many
\* dot-separated segments as the pattern.
C5_OneSegmentPerWildcard_AsStated ==
    (Matched /\ IsTokenPattern(val.pattern) /\ ~val.raised) =>
        \A k \in KeySet(val.keys) : Len(Segments(k)) = Len(Segments(val.pattern))

\* C6 as stated: a key matches a pattern at a '{i}' position only if the key's
\* segment there is one or more ASCII digits, never an empty segment or one
\* that holds a non-digit character.
C6_BracesDigitOnly_AsStated ==
    (Matched /\ IsPlainPattern(val.pattern) /\ ~val.raised) =>
        \A k \in KeySet(val.keys) :
            \A n \in DOMAIN Segments(val.pattern) :
                Segments(val.pattern)[n] = Braces =>
                    n \in DOMAIN Segments(k) /\ IsDigitRun(Segments(k)[n])

\* C7 as stated: for every pattern p without a wildcard token,
\* find_matching_keys(doc, p) returns exactly the keys of doc equal to p: every
\* character of p, '.', '[' and ']' included, stands only for itself.
C7_LiteralPattern_AsStated ==
    (Matched /\ HasNoToken(val.pattern)) =>
        /\ ~val.raised
        /\ KeySet(val.keys) = {k \in KeysOf(val.data.v) : k = val.pattern}

----------------------------------------------------------------------------
(* Notions the claims about validation are stated in *)

\* validate_metrics(val.data, val.config) returned
Validated == val.op = "validate_metrics" /\ ~val.raised
\* get_validation_stats was called after validate_metrics(val.data, val.config)
\* returned
StatsAfterValidation ==
    val.op = "get_validation_stats" /\ val.prev_op = "validate_metrics" /\ ~val.prev_raised

\* the pattern occurrences of a catalog, each with the name of its rule, in the
\* order of the catalog
RECURSIVE Occurrences(_, _)
Occurrences(rules, i) ==
    IF i > Len(rules) THEN <<>>
    ELSE LET patterns == get(rules[i], "patterns", <<>>)
             name     == get(rules[i], "name", <<"U", "n", "k", "n", "o", "w", "n", " ", "R", "u", "l", "e">>)
         IN  [j \in 1..Len(patterns) |-> [pattern |-> patterns[j], rule |-> name]]
             \o Occurrences(rules, i + 1)
OccurrencesOf(config) == Occurrences(get(config, "rules", <<>>), 1)

\* the sum of instances_found over the entries of found_metrics from entry i on
RECURSIVE SumInstances(_, _)
SumInstances(found, i) ==
    IF i > Len(found) THEN 0 ELSE found[i].instances_found + SumInstances(found, i + 1)

\* the document the patterns are matched against
FlattenedOf(data) ==
    IF detect_format(data) = "objecthierarchy" THEN flatten_object_hierarchy(data) ELSE data

\* the keys of the flattened document that the compiled pattern matches
MatchingKeys(flat, pattern) ==
    {k \in KeysOf(flat.v) : re_match(compile(pattern_to_regex(pattern), 1), k)}

\* the entries without what was found for them: pattern and rule
Tags(entries) ==
    [i \in 1..Len(entries) |-> [pattern |-> entries[i].pattern, rule |-> entries[i].rule]]

----------------------------------------------------------------------------
(* Claims C8 - C10: validation *)

\* C8: after every successful validate_metrics, total_expected is the number of
\* pattern occurrences over all rules of the catalog (duplicates counted) and
\* equals len(found_metrics) + len(missing_metrics), total_found equals
\* len(found_metrics), and total_instances is the sum of instances_found over
\* found_metrics.
C8_CountersAgree ==
    Validated =>
        LET r == validation_results
        IN  /\ r.total_expected = Len(OccurrencesOf(val.config))
            /\ r.total_expected = Len(r.found_metrics) + Len(r.missing_metrics)
            /\ r.total_found = Len(r.found_metrics)
            /\ r.total_instances = SumInstances(r.found_metrics, 1)

\* a catalog of three occurrences, one pattern twice, on a document where a
\* pattern has more than one instance
C8_Witness ==
    /\ Validated
    /\ validation_results.total_expected = 3
    /\ \E i, j \in 1..3 :
          i # j /\ OccurrencesOf(val.config)[i].pattern = OccurrencesOf(val.config)[j].pattern
    /\ validation_results.total_instances > validation_results.total_found

\* C9: each pattern occurrence of the catalog is in exactly one of found_metrics
\* and missing_metrics, tagged with its rule's name; it is in found_metrics
\* exactly when at least one key of the flattened document matches it, and then
\* instance_keys holds exactly the matching keys and instances_found is their
\* number (at least 1); otherwise it is in missing_metrics.
C9_BinaryPresence ==
    Validated =>
        LET r    == validation_results
            flat == FlattenedOf(val.data)
            occ  == OccurrencesOf(val.config)
            IsFound(o)   == MatchingKeys(flat, o.pattern) # {}
            IsMissing(o) == MatchingKeys(flat, o.pattern) = {}
        IN  /\ Tags(r.found_metrics) = SelectSeq(occ, IsFound)
            /\ r.missing_metrics = SelectSeq(occ, IsMissing)
            /\ \A i \in 1..Len(r.found_metrics) :
                  LET f == r.found_metrics[i]
                  IN  /\ KeySet(f.instance_keys) = MatchingKeys(flat, f.pattern)
                      /\ Len(f.instance_keys) = Cardinality(MatchingKeys(flat, f.pattern))
                      /\ f.instances_found = Len(f.instance_keys)
                      /\ f.instances_found >= 1

\* one rule's pattern was found and another rule's pattern is missing
C9_Witness ==
    /\ Validated
    /\ Len(validation_results.found_metrics) >= 1
    /\ Len(validation_results.missing_metrics) >= 1
    /\ validation_results.found_metrics[1].rule # validation_results.missing_metrics[1].rule

\* C10: after validate_metrics with a catalog whose rules list is empty,
\* get_validation_stats reports total_expected = 0 and success_rate = 0 without
\* an error; for every catalog total_found <= total_expected, and success_rate
\* is total_found / total_expected * 100, between 0 and 100.
C10_SuccessRate ==
    /\ validation_results.total_found <= validation_results.total_expected
    /\ StatsAfterValidation =>
          /\ ~val.raised
          /\ val.stats.total_found <= val.stats.total_expected
          /\ val.stats.success_rate.den > 0
          /\ 0 <= val.stats.success_rate.num
          /\ val.stats.success_rate.num <= 100 * val.stats.success_rate.den
          /\ val.stats.total_expected > 0 =>
                val.stats.success_rate.num * val.stats.total_expected
                    = val.stats.total_found * 100 * val.stats.success_rate.den
          /\ get(val.config, "rules", <<>>) = <<>> =>
                val.stats.total_expected = 0 /\ val.stats.success_rate.num = 0

\* the statistics of a validation of a document with keys against a catalog
\* without rules
C10_Witness ==
    /\ StatsAfterValidation /\ ~val.raised
    /\ get(val.config, "rules", <<>>) = <<>>
    /\ val.data.t = "dict" /\ val.data.v # <<>>
    /\ val.stats.total_expected = 0 /\ val.stats.success_rate.num = 0

----------------------------------------------------------------------------
(* Claim C11: format detection *)

\* the key holds a '.'
Dotted(key) == \E c \in 1..Len(key) : key[c] = "."

\* C11: detect_format returns 'namevalue' for a mapping exactly when one of its
\* first five top-level keys (in insertion order) holds a '.', 'objecthierarchy'
\* for every other mapping, {} included, and 'unknown' for every value that is
\* no mapping.
C11_DetectFormat ==
    val.op = "detect_format" =>
        val.format =
            IF val.data.t # "dict" THEN "unknown"
            ELSE IF \E i \in 1..Len(val.data.v) : i <= 5 /\ Dotted(val.data.v[i][1])
                 THEN "namevalue" ELSE "objecthierarchy"

\* a mapping of six keys of which only the sixth holds a '.'
C11_Witness ==
    /\ val.op = "detect_format" /\ val.data.t = "dict" /\ Len(val.data.v) = 6
    /\ Dotted(val.data.v[6][1])
    /\ \A i \in 1..5 : ~Dotted(val.data.v[i][1])
    /\ val.format = "objecthierarchy"

----------------------------------------------------------------------------
(* Claims C12 - C16: errors *)

\* validate_with_custom_config(mgr.arg, val.config) returned
ValidatedByManager == mgr.op = "validate_with_custom_config"

\* C12: validating a value that is no mapping is an error for every catalog,
\* one without rules included: validate_metrics raises before it evaluates a
\* pattern (the results of the validator are what they were), and
\* validate_with_custom_config returns success False with a non-empty message.
C12_UnknownFormatIsAnError ==
    (ValidatedByManager /\ mgr.arg.t # "dict") =>
        /\ val.op = "validate_metrics" /\ val.raised
        /\ validation_results = mgr.results_before
        /\ ~mgr.success /\ mgr.message # ""

\* a string validated against a catalog without rules, by a manager that has
\* validated before
C12_Witness ==
    /\ ValidatedByManager /\ mgr.arg.t = "str"
    /\ get(val.config, "rules", <<>>) = <<>>
    /\ mgr.results_before.total_expected > 0
    /\ ~mgr.success /\ mgr.message = "Unsupported data format: unknown"

\* the placeholder each manager operation returns with a failure: None, {}, []
Placeholder(op) ==
    CASE op = "convert_data" -> JNull
      [] op = "validate_with_custom_config" -> JDict(<<>>)
      [] op = "extract_metrics" -> JList(<<>>)

\* what the operation underneath the manager produced
Produced(op) ==
    CASE op = "convert_data" -> conv.result
      [] op = "validate_with_custom_config" -> validation_results
      [] op = "extract_metrics" -> ext.result

\* C13: convert_data, validate_with_custom_config and extract_metrics return
\* either (True, result, "") or (False, placeholder, non-empty message) with
\* the placeholder None, {} or []; an exception of the operation underneath is
\* returned as a failure, and a failure carries no partial result.
C13_ManagersReturnTuples ==
    mgr.op # "none" =>
        IF mgr.success
        THEN mgr.message = "" /\ mgr.result = Produced(mgr.op)
        ELSE mgr.message # "" /\ mgr.result = Placeholder(mgr.op)

\* a validation that failed on a validator that had found metrics before: the
\* reply holds {} and none of them
C13_Witness ==
    /\ ValidatedByManager /\ ~mgr.success /\ val.raised
    /\ mgr.results_before.total_found > 0
    /\ mgr.result = JDict(<<>>) /\ mgr.message # ""

\* C14, as stated: convert_data of a top-level value that is neither a mapping
\* nor a sequence returns success False with an error message, for
\* 'to_hierarchy' and for 'to_namevalue'. Violated: a top-level string has a
\* length and is neither dict nor list, so 'to_hierarchy' returns (True, {}, "").
C14_ScalarsRejected_AsStated ==
    (/\ mgr.op = "convert_data"
     /\ mgr.type \in {"to_hierarchy", "to_namevalue"}
     /\ mgr.arg.t \notin {"dict", "list"}) =>
        ~mgr.success /\ mgr.message # ""

\* the path p leads through the path q: q is a proper prefix of p, by segments
LeadsThrough(p, q) ==
    LET ps == split(p)
        qs == split(q)
    IN  Len(qs) < Len(ps) /\ SubSeq(ps, 1, Len(qs)) = qs

\* the flat mapping holds an entry with a scalar and, after it, an entry whose
\* path leads through the first
HasStructureConflict(data) ==
    /\ data.t = "dict"
    /\ \E i, j \in 1..Len(data.v) :
          /\ i < j
          /\ data.v[i][1] # <<>>
          /\ data.v[i][2].t \in {"str", "int", "null"}
          /\ LeadsThrough(data.v[j][1], data.v[i][1])

\* C15: when an entry of to_object_hierarchy has to descend through a segment
\* that holds a scalar already, convert_data returns (False, None, message): no
\* hierarchy is returned, so none in which a sub-mapping replaced the scalar.
C15_StructureConflictIsAnError ==
    (/\ mgr.op = "convert_data" /\ mgr.type = "to_hierarchy"
     /\ HasStructureConflict(mgr.arg)) =>
        /\ ~mgr.success /\ mgr.result = JNull /\ mgr.message # ""
        /\ conv.op = "to_object_hierarchy" /\ conv.raised

\* {'a': 'x', 'a.b': 1} was converted and ended in an error
C15_Witness ==
    /\ mgr.op = "convert_data" /\ mgr.type = "to_hierarchy"
    /\ mgr.arg = JDict(<< << <<"a">>, JStr(<<"x">>) >>,
                          << <<"a", ".", "b">>, JInt(<<"1">>) >> >>)
    /\ HasStructureConflict(mgr.arg)
    /\ ~mgr.success /\ mgr.result = JNull /\ mgr.message = BuildError

\* C16: a call of convert_data with a conversion type other than
\* 'to_hierarchy' and 'to_namevalue' returns (False, None, message), runs no
\* conversion, and leaves the statistics of the converter as they were.
C16_UnknownConversionType ==
    [][ (mgr'.op = "convert_data"
         /\ mgr'.type \notin {"to_hierarchy", "to_namevalue"}) =>
            /\ ~mgr'.success /\ mgr'.result = JNull
            /\ mgr'.message = "Unknown conversion type: " \o mgr'.type
            /\ stats' = stats /\ conv' = conv ]_vars

\* 'to_flat' was asked of a manager whose converter has counted keys before
C16_Witness ==
    /\ mgr.op = "convert_data" /\ mgr.type = "to_flat"
    /\ mgr.arg.t = "dict" /\ mgr.stats_before.total_keys > 0
    /\ stats = mgr.stats_before
    /\ ~mgr.success /\ mgr.result = JNull

----------------------------------------------------------------------------
(* Claims C17, C18: nothing carried over from an earlier call *)

\* get_stats() of a fresh converter after the call op(data) alone
StatsOfCallAlone(op, data) ==
    IF op = "to_object_hierarchy" THEN to_object_hierarchy(data, InitStats).stats
                                  ELSE to_name_value_pair(data, InitStats).stats

\* C17, as stated: after any sequence of to_object_hierarchy and
\* to_name_value_pair calls on one converter, get_stats() equals what a fresh
\* converter reports after the last call alone. Violated: to_object_hierarchy
\* of a number or None raises in len(data), before the counters are reset, and
\* the counters of the call before stay.
C17_StatsOfLastCallAlone_AsStated ==
    conv.op # "none" => stats = StatsOfCallAlone(conv.op, conv.arg)

\* C18: the dict of results is made anew by each call of validate_metrics and
\* nothing is merged into it: after any sequence of calls on one validator, the
\* results of a call that returned are those a fresh validator returns for the
\* same document and catalog, and a dict that an earlier call returned holds
\* what it held when it was returned.
C18_ResultsFreshPerCall ==
    /\ Validated =>
          /\ validation_results
                = validate_metrics(val.data, val.config, InitResults).results
          /\ val.returned = validation_results
    /\ earlier.held => earlier.now = earlier.at_return

\* a caller holds the results of an earlier call, in which a pattern was
\* found, and the validator has returned other results since
C18_Witness ==
    /\ Validated /\ earlier.held /\ ~earlier.bound
    /\ earlier.at_return.total_found > 0
    /\ earlier.now = earlier.at_return
    /\ validation_results # earlier.at_return

----------------------------------------------------------------------------
(* Claims C19, C20: extraction of patterns *)

\* a segment of digits only, at least one; a digit is a character str.isdigit
\* holds for, which a superscript digit is as well
IsAllDigit(seg) ==
    seg # <<>> /\ \A c \in 1..Len(seg) : seg[c] \in Digits \cup {SuperscriptTwo}

\* the key with every all-digit segment replaced by '*'
Generalized(key) ==
    LET segs == Segments(key)
    IN  DotJoin([i \in 1..Len(segs) |->
                    IF IsAllDigit(segs[i]) THEN <<"*">> ELSE segs[i]])

\* x comes before y in the lexicographic order of the code points
LexBefore(x, y) ==
    \E k \in 1..Len(y) :
        /\ k <= Len(x) + 1
        /\ \A c \in 1..(k - 1) : x[c] = y[c]
        /\ k = Len(x) + 1 \/ ord(x[k]) < ord(y[k])

\* extract_metrics_from_namevalue(ext.arg) returned ext.result
ExtractedFromNamevalue == ext.op = "extract_metrics_from_namevalue"

\* C19: the list extract_metrics_from_namevalue returns is sorted
\* lexicographically, holds no pattern twice, and holds exactly the keys of the
\* document with every all-digit segment replaced by '*' and every other
\* segment unchanged.
C19_SortedGeneralizedKeys ==
    ExtractedFromNamevalue =>
        /\ \A i, j \in 1..Len(ext.result) :
              i < j => LexBefore(ext.result[i], ext.result[j])
        /\ KeySet(ext.result) = { Generalized(key) : key \in KeysOf(ext.arg.v) }

\* 'a.1.b' and 'a.2.b' gave the one pattern 'a.*.b'
C19_Witness ==
    /\ ExtractedFromNamevalue
    /\ KeysOf(ext.arg.v) = { <<"a", ".", "1", ".", "b">>, <<"a", ".", "2", ".", "b">> }
    /\ ext.result = << <<"a", ".", "*", ".", "b">> >>

\* the patterns the call before extracted were the keys of this document
ExtractedAgain ==
    /\ ExtractedFromNamevalue
    /\ ext.prev_op \in {"extract_metrics_from_namevalue",
                        "extract_metrics_from_objecthierarchy"}
    /\ ext.arg = DocOfKeys(ext.prev_result)

\* the pattern the call before returned was converted
ConvertedAgain ==
    /\ ext.op = "_convert_to_wildcard_pattern"
    /\ ext.prev_op = "_convert_to_wildcard_pattern"
    /\ ext.arg = JStr(ext.prev_result[1])

\* C20: generalization is idempotent: extract_metrics_from_namevalue of a
\* mapping whose keys are the patterns extracted before returns the same list
\* of patterns, and _convert_to_wildcard_pattern of a pattern it returned
\* returns that pattern.
C20_GeneralizationIdempotent ==
    (ExtractedAgain \/ ConvertedAgain) => ext.result = ext.prev_result

\* 'a.12.1' became 'a.*.*', and extracting from {'a.*.*': 1} gave 'a.*.*' again
C20_Witness ==
    /\ ExtractedAgain
    /\ <<"a", ".", "1", "2", ".", "1">> \in KeysOf(ext.prev_arg.v)
    /\ <<"a", ".", "*", ".", "*">> \in KeySet(ext.prev_result)
    /\ ext.result = ext.prev_result

----------------------------------------------------------------------------
(* Claim C21: categories *)

\* the key a pattern is looked up by: its first two segments joined by '.',
\* or its only segment
CategoryKey(pattern) ==
    LET segs == Segments(pattern)
    IN  IF Len(segs) >= 2 THEN segs[1] \o <<".">> \o segs[2] ELSE segs[1]

\* the name the table has for the key, or '<key> Metrics'
CategoryName(pattern) ==
    LET key == CategoryKey(pattern)
        rows == {r \in 1..Len(category_mapping) : category_mapping[r][1] = key}
    IN  IF rows # {} THEN category_mapping[CHOOSE r \in rows : TRUE][2]
        ELSE key \o <<" ", "M", "e", "t", "r", "i", "c", "s">>

\* the patterns of the list that belong to the category, in the order of the list
RECURSIVE PatternsOfCategory(_, _)
PatternsOfCategory(metrics, name) ==
    IF metrics = <<>> THEN <<>>
    ELSE (IF CategoryName(Head(metrics)) = name THEN <<Head(metrics)>> ELSE <<>>)
         \o PatternsOfCategory(Tail(metrics), name)

\* categorize_metrics(ext.arg) returned ext.result
Categorized == ext.op = "categorize_metrics"

----------------------------------------------------------------------------
(* Claim C22: one way of flattening *)

\* extract_metrics_from_objecthierarchy(ext.arg) returned ext.result
ExtractedFromObjecthierarchy == ext.op = "extract_metrics_from_objecthierarchy"

\* C22, as stated: for every hierarchy h, _flatten_hierarchy(h) of the
\* extractor and flatten_object_hierarchy(h) of the validator both equal
\* to_name_value_pair(h) of the converter, so extracting from h gives what
\* extracting from to_name_value_pair(h) gives. Violated: the converter stores
\* a list as the value of its path, the two others enter it and write one
\* entry per element under 'path[i]'.
C22_FlattenAlike_AsStated ==
    ExtractedFromObjecthierarchy =>
        /\ _flatten_hierarchy(ext.arg) = to_name_value_pair(ext.arg, InitStats).result
        /\ flatten_object_hierarchy(ext.arg)
              = to_name_value_pair(ext.arg, InitStats).result
        /\ ext.result
              = extract_metrics_from_namevalue(
                    to_name_value_pair(ext.arg, InitStats).result)

----------------------------------------------------------------------------
(* Claim C23: one validator, two calls at a time *)

\* the call t has returned
Returned(t) == par.call[t].pc = "done"

\* what the call t returns when no other call runs
ResultAlone(t) ==
    validate_metrics(par.call[t].data, par.call[t].config, InitResults).results

\* the patterns of the entries of a result
PatternsIn(results) ==
    {results.found_metrics[n].pattern : n \in 1..Len(results.found_metrics)}
    \cup {results.missing_metrics[n].pattern : n \in 1..Len(results.missing_metrics)}

\* C23: a MetricsValidator is not safe to share between two validate_metrics
\* calls at a time. The results are a field of the instance that every
\* statement of a call reads anew: a call during whose loops the other call
\* binds its dict writes the rest of its entries into the dict of the other
\* call and returns that dict, not its own; a call that was not overtaken
\* returns its own dict, with whatever the other call wrote into it. So there
\* are interleavings in which a call returns entries of the other call.
C23_CallsShareResults ==
    \A t \in 1..2 :
        Returned(t) =>
            IF par.call[t].overtaken
            THEN /\ par.call[t].ret = par.call[Other(t)].own
                 /\ par.call[t].ret # par.call[t].own
            ELSE par.call[t].ret = par.call[t].own

\* the call with the one pattern 'a.%' has returned a result that is not the
\* one it returns alone: it holds the missing pattern 'b' of the other call
C23_Witness ==
    \E t \in 1..2 :
        /\ Returned(t)
        /\ PatternsIn(ResultAlone(t)) = { <<"a", ".", "%">> }
        /\ par.call[t].returned # ResultAlone(t)
        /\ <<"b">> \in PatternsIn(par.call[t].returned)

----------------------------------------------------------------------------
(* Claim C24: the error counter *)

\* C24, as stated: after a call of to_object_hierarchy or to_name_value_pair
\* that raised, stats['errors'] is at least 1, and after one that returned it
\* is 0. Violated: to_object_hierarchy of a number or None raises in
\* len(data), outside the try that counts errors.
C24_ErrorsCountFailures_AsStated ==
    conv.op # "none" =>
        IF conv.raised THEN stats.errors >= 1 ELSE stats.errors = 0

----------------------------------------------------------------------------
(* Claim C25: the order of the entries *)

\* equal as mappings: the same keys with equal values, in whatever order
RECURSIVE SameDocument(_, _)
SameDocument(x, y) ==
    IF x.t = "dict" /\ y.t = "dict"
    THEN /\ KeysOf(x.v) = KeysOf(y.v)
         /\ \A k \in KeysOf(x.v) : SameDocument(GetItem(x.v, k), GetItem(y.v, k))
    ELSE x = y

\* the orderings of the entries of a mapping
Orderings(items) ==
    { [n \in 1..Len(items) |-> items[f[n]]] : f \in Permutations(1..Len(items)) }

\* C25, as stated: for every flat mapping and every two orderings of its
\* entries, to_object_hierarchy fails for both or returns equal hierarchies
\* for both. Violated by a key that is a dot-prefix of another: 'a' before
\* 'a.b' fails, 'a.b' before 'a' returns the hierarchy with 'a' alone.
C25_OrderOfEntries_AsStated ==
    (conv.op = "to_object_hierarchy" /\ conv.arg.t = "dict") =>
        \A items \in Orderings(conv.arg.v) :
            \E other \in {to_object_hierarchy(JDict(items), InitStats)} :
                /\ other.raised = conv.raised
                /\ ~conv.raised => SameDocument(other.result, conv.result)

----------------------------------------------------------------------------
(* Claims C26, C28: the results of the instance between calls *)

\* C26, as stated: get_validation_stats succeeds in every state of a
\* validator, fresh, after validate_metrics calls that returned and after
\* calls that failed, and returns total_expected, total_found, total_missing,
\* total_instances, success_rate and config_name. Violated: the dict that
\* __init__ binds has no 'total_instances', so on a validator that has not
\* bound the dict of a validation the method raises KeyError.
C26_StatsAlwaysAvailable_AsStated ==
    val.op = "get_validation_stats" =>
        /\ ~val.raised
        /\ DOMAIN val.stats = {"total_expected", "total_found", "total_missing",
                               "total_instances", "success_rate", "config_name"}

\* C28, as stated: when a validate_metrics call fails, on the format or while
\* a pattern of the catalog is processed, validation_results afterwards is
\* what it was before the call. Violated: a pattern whose regex does not
\* compile raises after the new dict was bound and the patterns before it
\* were counted and recorded.
C28_FailedCallLeavesResults_AsStated ==
    (ValidatedByManager /\ ~mgr.success) =>
        validation_results = mgr.results_before

----------------------------------------------------------------------------
(* Claim C27: extracted patterns and their document *)

\* the catalog with one rule that holds the patterns
CatalogOf(patterns) ==
    [name |-> "extracted", rules |-> <<[name |-> RuleName(1), patterns |-> patterns]>>]

\* C27, as stated: validating a document, flat or nested, lists included,
\* against the catalog of the patterns extracted from it finds every pattern:
\* no missing_metrics, and total_found equal to total_expected. Violated: the
\* key of a list element, 'r[0]', is its own pattern, and in the regex of
\* that pattern '[0]' is a character class, which the key does not match.
C27_ExtractedPatternsMatch_AsStated ==
    (mgr.op = "extract_metrics" /\ mgr.success) =>
        \E r \in {validate_metrics(mgr.arg, CatalogOf(mgr.result), InitResults)} :
            /\ ~r.raised
            /\ r.results.missing_metrics = <<>>
            /\ r.results.total_found = r.results.total_expected
            /\ r.results.total_expected = Len(mgr.result)

----------------------------------------------------------------------------
(* Claim C29: flattening flat data *)

\* a flat mapping: every value is a scalar
IsFlatMap(data) ==
    data.t = "dict" /\ \A n \in 1..Len(data.v) : data.v[n][2].t \in {"str", "int", "null"}

\* the outcome of the validation of a document that is taken as it is, as one
\* of the format 'namevalue' is
ValidatedAsItIs(data, config) ==
    validate_rules(data, get(config, "rules", <<>>), 1,
                   [found_metrics |-> <<>>, missing_metrics |-> <<>>,
                    total_expected |-> 0, total_found |-> 0, total_instances |-> 0,
                    validation_config |-> get(config, "name", "Unknown")])

\* C29: flatten_object_hierarchy is the identity on a flat mapping with scalar
\* values, so validate_metrics gives for such a mapping what it gives for a
\* 'namevalue' document, also when detect_format takes it for an
\* 'objecthierarchy' because none of its first five keys holds a '.'.
C29_FlatDataFlattensToItself ==
    (val.op = "validate_metrics" /\ IsFlatMap(val.data)) =>
        /\ flatten_object_hierarchy(val.data) = val.data
        /\ \E r \in {ValidatedAsItIs(val.data, val.config)} :
              /\ val.raised = r.raised
              /\ validation_results = r.results

\* a flat mapping whose sixth key is the first with a '.' was validated as an
\* 'objecthierarchy', and a pattern found that key
C29_Witness ==
    /\ Validated /\ IsFlatMap(val.data)
    /\ Len(val.data.v) = SampleKeys + 1
    /\ detect_format(val.data) = "objecthierarchy"
    /\ HasDot(val.data.v[SampleKeys + 1][1])
    /\ validation_results.total_found > 0


----------------------------------------------------------------------------
(* Claim C30: the arguments of a call *)

\* a conversion has returned its result
Converted ==
    /\ ref.op \in {"to_object_hierarchy", "to_name_value_pair"}
    /\ ~ref.raised

\* the objects the result shares with the input document
SharedObjects == reachable(ref.heap, ref.result) \cap reachable(ref.heap, ref.data)

=============================================================================
